---- MODULE Spec2Model ----
(***************************************************************************)
(* State-machine model of flood_damage(), the record-by-record flood loss  *)
(* estimation of "DOGAMI Hazus Flood Script v3p2.py": for each depth grid, *)
(* for each UDF row, the loop body of lines 352-840 is one step.           *)
(*                                                                         *)
(* Representation.                                                         *)
(*  - Text read from the UDF (OccupancyClass, FoundationType, flC, the     *)
(*    three DamageFn ids) is a sequence of one-character strings, so that  *)
(*    strip(), slicing and int() are computed as Python computes them.     *)
(*    Keys and ids built from them are joined into TLA+ strings (Cat).     *)
(*  - A nullable value is <<>> (None) or <<v>>.                            *)
(*  - A float is an integer count of 1/Res units: a depth of 2.5 ft with   *)
(*    Res = 2 is 5.  Percentages of the lookup tables are whole numbers.   *)
(*    A loss ratio is kept as  100 * Res * ratio  and a loss amount as     *)
(*    100 * Res * amount, so that no value is rounded by the model.        *)
(***************************************************************************)
EXTENDS Integers, Sequences, FiniteSets, TLC

(***************************************************************************)
(* Bounds of the model.                                                    *)
(***************************************************************************)
Res == 2            \* float resolution: units per foot (and per story, per dollar)
NumGrids == 2       \* depth grids in DepthGrids
NumRecords == 2     \* rows of the UDF feature class
MaxStories == 7     \* greatest NumStories of the occupancy keys resolved on their own

None == <<>>
Some(v) == <<v>>
IsNone(o) == o = <<>>
Val(o) == o[1]

(***************************************************************************)
(* Python text primitives.                                                 *)
(***************************************************************************)
RECURSIVE Cat(_)
Cat(s) == IF s = <<>> THEN "" ELSE Head(s) \o Cat(Tail(s))

IsSpace(c) == c = " "

RECURSIVE lstrip(_)
lstrip(s) == IF s # <<>> /\ IsSpace(Head(s)) THEN lstrip(Tail(s)) ELSE s

RECURSIVE rstrip(_)
rstrip(s) ==
    IF s # <<>> /\ IsSpace(s[Len(s)]) THEN rstrip(SubSeq(s, 1, Len(s) - 1)) ELSE s

\* str.strip()
strip(s) == rstrip(lstrip(s))

\* s[:k] for k >= 0
SliceTo(s, k) == SubSeq(s, 1, IF k < Len(s) THEN k ELSE Len(s))

\* s[i:] for any integer i (a negative i counts from the end; -0 is 0)
SliceFrom(s, i) ==
    LET n == Len(s)
        start == IF i >= 0 THEN i ELSE IF n + i > 0 THEN n + i ELSE 0
    IN  SubSeq(s, start + 1, n)

Digits == <<"0", "1", "2", "3", "4", "5", "6", "7", "8", "9">>
IsDigit(c) == \E d \in 1..10 : Digits[d] = c
DigitVal(c) == (CHOOSE d \in 1..10 : Digits[d] = c) - 1

RECURSIVE NatVal(_)
NatVal(s) == IF s = <<>> THEN 0 ELSE 10 * NatVal(SubSeq(s, 1, Len(s) - 1)) + DigitVal(s[Len(s)])

\* int(text): surrounding blanks and one sign are accepted, then digits only.
\* IntOk is FALSE where Python raises ValueError.
IntBody(s) == LET t == strip(s) IN IF t # <<>> /\ Head(t) \in {"+", "-"} THEN Tail(t) ELSE t
IntOk(s) == LET b == IntBody(s) IN b # <<>> /\ \A k \in 1..Len(b) : IsDigit(b[k])
IntVal(s) ==
    LET t == strip(s)
    IN  IF Head(t) = "-" THEN 0 - NatVal(IntBody(s)) ELSE NatVal(IntBody(s))

\* str(n) for an integer n
RECURSIVE NatStr(_)
NatStr(n) == IF n < 10 THEN Digits[n + 1] ELSE NatStr(n \div 10) \o Digits[(n % 10) + 1]
IntStr(n) == IF n < 0 THEN "-" \o NatStr(0 - n) ELSE NatStr(n)

(***************************************************************************)
(* math.floor, math.ceil and abs on a float held in 1/Res units; the       *)
(* result is in whole feet.                                                *)
(***************************************************************************)
Floor(x) == x \div Res
Ceil(x) == 0 - ((0 - x) \div Res)
Abs(n) == IF n < 0 THEN 0 - n ELSE n
Ft(n) == n * Res

(***************************************************************************)
(* The lookup tables (lines 227-242: each csv file is read once into a     *)
(* list of dictionaries and never written afterwards).  The library files  *)
(* themselves are data, not code; the tables below are a small library of  *)
(* the same shape: a depth-damage row has the columns m4..m1, p0..p24, a   *)
(* default table is keyed by SpecificOccupId, a full table by its id       *)
(* column.  The library is deliberately incomplete for some keys, so that  *)
(* the no-match paths of the script are reachable.                         *)
(***************************************************************************)
MinCol == -4        \* first depth column of a depth-damage row (m4)
MaxCol == 24        \* last depth column of a depth-damage row (p24)
DepthMin == -4      \* line 490: depth = -4 if depth < -4
DepthMax == 24      \* line 489: depth = 24 if depth > 24
NoExposure == -500  \* line 459: depth < -500 is "not exposed"
MoneyScale == 200   \* money is held in 1/(MoneyScale*Res) dollars: the multipliers of
                    \* line 424 are halves and line 446 divides by 100

ColName(d) == (IF d < 0 THEN "m" ELSE "p") \o NatStr(Abs(d))
Columns == {ColName(d) : d \in MinCol..MaxCol}
ColDepth(c) == CHOOSE d \in MinCol..MaxCol : ColName(d) = c

\* the percentage a library row of curve number b holds at depth d
Pct(b, d) == b + 2 * (d - MinCol) + ((d - MinCol) * (d - MinCol)) \div 20

DDF(soid, id, occ, b) ==
    [SpecificOccupId |-> soid, DDF_ID |-> id, Occupancy |-> occ,
     cols |-> [c \in Columns |-> Pct(b, ColDepth(c))]]

bddf_lut_riverine ==
    << DDF("R11N", "105", "RES1", 0), DDF("R11B", "106", "RES1", 1),
       DDF("C1LN", "217", "COM1", 2), DDF("C1LB", "218", "COM1", 3),
       DDF("G1LN", "300", "GOV1", 4), DDF("I1LN", "400", "IND1", 5),
       DDF("R11N", "199", "RES1", 6) >>
bddf_lut_coastalA ==
    << DDF("R11N", "601", "RES1", 1), DDF("R11B", "602", "RES1", 2) >>
bddf_lut_coastalV ==
    << DDF("R11N", "651", "RES1", 3) >>
bddf_lut_full ==
    bddf_lut_riverine \o bddf_lut_coastalA \o bddf_lut_coastalV
        \o << DDF("", "700", "RES1", 7), DDF("", "700", "COM1", 0) >>

cddf_lut_riverine ==
    << DDF("R11N", "21", "RES1", 2), DDF("R11B", "22", "RES1", 3),
       DDF("C1LN", "31", "COM1", 4), DDF("C1LB", "32", "COM1", 5),
       DDF("I1LN", "35", "IND1", 6), DDF("C1LN", "39", "COM1", 0) >>
cddf_lut_coastalA ==
    << DDF("R11N", "41", "RES1", 6), DDF("R11B", "42", "RES1", 7) >>
cddf_lut_coastalV ==
    << DDF("R11N", "46", "RES1", 0), DDF("R11B", "47", "RES1", 1) >>
cddf_lut_full ==
    cddf_lut_riverine \o cddf_lut_coastalA \o cddf_lut_coastalV
        \o << DDF("", "700", "RES1", 1) >>

iddf_lut_riverine ==
    << DDF("C1LN", "5", "COM1", 3), DDF("I1LN", "6", "IND1", 4) >>
iddf_lut_full ==
    iddf_lut_riverine \o << DDF("", "700", "COM1", 5) >>

\* flBldgEconParamSalesAndInv: no row for IND1
iecon_lut ==
    << [Occupancy |-> "COM1", AnnualSalesPerSqFt |-> 30, BusinessInvPctofSales |-> 10],
       [Occupancy |-> "COM1", AnnualSalesPerSqFt |-> 50, BusinessInvPctofSales |-> 20] >>

Occupancies == {"RES1", "COM1", "GOV1", "IND1"}

\* flDebris_LUT: tons per 1000 square feet
DebrisRow(key, n) ==
    [DebrisID |-> key, Finishes |-> 10 + n, Structure |-> 20 + 2 * n, Foundation |-> 3 * n]
DebrisKeys ==
    << "RES1BSG-4", "RES1BSG0", "RES1BSG4", "RES1BSG6", "RES1BSG8", "RES1BSG-8" >>
    \o << "RES1NBFT0", "RES1NBFT1", "RES1NBFT4", "RES1NBFT8", "RES1NBFT12" >>
    \o << "COM1NBFT0", "COM1NBFT1", "COM1NBFT4", "COM1NBFT8", "COM1NBFT12" >>
    \o << "COM1NBSG0", "COM1NBSG1", "COM1NBSG4", "COM1NBSG8", "COM1NBSG12" >>
    \o << "IND1NBFT0", "IND1NBFT1", "IND1NBFT4", "IND1NBFT8" >>
    \o << "GOV1NBFT0", "GOV1NBFT1", "GOV1NBFT4", "GOV1NBFT8", "GOV1NBFT12" >>
    \o << "COM1NBFT1" >>
debris_lut == [i \in 1..Len(DebrisKeys) |-> DebrisRow(DebrisKeys[i], i)]

\* flRsFnGBS_LUT: restoration days
RestRow(key, n) == [RestFnID |-> key, Min_Restor_Days |-> 10 * n, Max_Restor_Days |-> 15 * n]
RestKeys ==
    << "RES10", "RES11", "RES14", "RES18", "RES112", "RES124" >>
    \o << "COM11", "COM14", "COM18", "COM112", "COM124" >>
    \o << "IND10", "IND11", "IND14", "IND18", "IND112", "IND124" >>
    \o << "GOV10", "GOV11", "GOV14", "GOV18", "GOV112", "GOV124" >>
    \o << "RES14" >>
rest_lut == [i \in 1..Len(RestKeys) |-> RestRow(RestKeys[i], i)]

\* lines 245-253: the ids of a full table, for the membership test
FullList(lut) == [i \in 1..Len(lut) |-> lut[i].DDF_ID]
bddf_lut_full_list == FullList(bddf_lut_full)
cddf_lut_full_list == FullList(cddf_lut_full)
iddf_lut_full_list == FullList(iddf_lut_full)

Content_x_0p5 ==
    {"RES1", "RES2", "RES3A", "RES3B", "RES3C", "RES3D", "RES3E", "RES3F", "RES4", "RES5",
     "RES6", "COM10"}
Content_x_1p0 ==
    {"COM1", "COM2", "COM3", "COM4", "COM5", "COM8", "COM9", "IND6", "AGR1", "REL1", "GOV1",
     "EDU1"}
Content_x_1p5 ==
    {"COM6", "COM7", "IND1", "IND2", "IND3", "IND4", "IND5", "GOV2", "EDU2"}
Inventory_List ==
    {"COM1", "COM2", "IND1", "IND2", "IND3", "IND4", "IND5", "IND6", "AGR1"}

InSeq(x, s) == \E i \in 1..Len(s) : s[i] = x

(***************************************************************************)
(* The optional UDF attributes (lines 262-293).  `fields` is the set of    *)
(* optional attributes the UDF feature class has.                          *)
(***************************************************************************)
OptionalFields ==
    {"flC", "BldgDamageFnID", "ContDamageFnId", "InvDamageFnId", "ContentCost", "InvCost"}
CoastalZoneSupplied(flds) == "flC" \in flds
ubddf(flds) == "BldgDamageFnID" \in flds
ucddf(flds) == "ContDamageFnId" \in flds
uiddf(flds) == "InvDamageFnId" \in flds
uccost(flds) == "ContentCost" \in flds
uicost(flds) == "InvCost" \in flds

(***************************************************************************)
(* Depth adjustment, line 372, and the occupancy key, lines 378-418.       *)
(***************************************************************************)
AdjustedDepth(rastervalue, FFHeight) ==
    IF IsNone(rastervalue) THEN None ELSE Some(Val(rastervalue) - FFHeight)

\* a variant of line 459 that also takes a depth of exactly -500 ft as no exposure
NotExposed_AtThreshold(depth) == IsNone(depth) \/ Val(depth) <= Ft(NoExposure)

\* line 459
NotExposed(depth) == IsNone(depth) \/ Val(depth) < Ft(NoExposure)

\* a variant of lines 489-490 that sets a depth below the range to +4 ft
ClampDepth_SignSlip(d) ==
    LET d1 == IF d > Ft(DepthMax) THEN Ft(DepthMax) ELSE d
    IN  IF d1 < Ft(DepthMin) THEN Ft(0 - DepthMin) ELSE d1

\* lines 489-490
ClampDepth(d) ==
    LET d1 == IF d > Ft(DepthMax) THEN Ft(DepthMax) ELSE d
    IN  IF d1 < Ft(DepthMin) THEN Ft(DepthMin) ELSE d1

\* a variant of line 394 without the case of REL1
sopre_NoREL1(OCc) ==
    Cat(SliceTo(OCc, 1)) \o Cat(SliceFrom(OCc, 0 - (Len(OCc) - 3)))

\* line 394:  OC[:1]+OC[-(len(OC)-3):] if OC != 'REL1' else 'RE1'
sopre(OCc) ==
    IF Cat(OCc) # "REL1"
    THEN Cat(SliceTo(OCc, 1)) \o Cat(SliceFrom(OCc, 0 - (Len(OCc) - 3)))
    ELSE "RE1"

\* line 397
sosuf(foundationType) == IF foundationType = "4" THEN "B" ELSE "N"

\* str(numStories): NumStories is [float |-> BOOLEAN, v |-> stories in 1/Res units]
IsWhole(x) == x % Res = 0
PyStr(float, x) == IF float THEN IntStr(x \div Res) \o ".0" ELSE IntStr(x \div Res)

\* lines 400-416
somid(OCc, numStories) ==
    LET n == numStories.v
        f4 == Cat(SliceTo(OCc, 4))
    IN  IF f4 = "RES3"
        THEN IF n > Ft(4) THEN "5" ELSE IF n > Ft(2) THEN "3" ELSE "1"
        ELSE IF f4 = "RES1"
        THEN IF n > Ft(3) THEN "3"
             ELSE IF IsWhole(n) THEN PyStr(numStories.float, n) ELSE "S"
        ELSE IF f4 = "RES2"
        THEN "1"
        ELSE IF n > Ft(6) THEN "H" ELSE IF n > Ft(3) THEN "M" ELSE "L"

\* a variant of line 418 that puts the whole class in front
SpecificOccupIdOf_WholeClass(OCc, foundationType, numStories) ==
    Cat(OCc) \o somid(OCc, numStories) \o sosuf(foundationType)

\* line 418
SpecificOccupIdOf(OCc, foundationType, numStories) ==
    sopre(OCc) \o somid(OCc, numStories) \o sosuf(foundationType)

(***************************************************************************)
(* Content and inventory cost basis, lines 421-455.                        *)
(***************************************************************************)
\* line 424, in halves
CMult(OC) ==
    IF OC \in Content_x_0p5 THEN 1
    ELSE IF OC \in Content_x_1p0 THEN 2
    ELSE IF OC \in Content_x_1p5 THEN 3 ELSE 0

\* a float of the UDF (1/Res dollars) as money
Money(x) == x * MoneyScale

\* lines 425-430
ContentCostOf(rec, OC, flds) ==
    LET x0 == IF uccost(flds) THEN rec.ContentCost ELSE Some(0 - Ft(1))
        xt == IF IsNone(x0) THEN 0 - Ft(1) ELSE Val(x0)
    IN  IF xt = 0 - Ft(1) THEN rec.Cost * CMult(OC) * (MoneyScale \div 2) ELSE Money(xt)

\* the first row of lut whose column `col` equals key; 0 when there is none
FirstMatch(lut, col, key) ==
    IF \E i \in 1..Len(lut) : lut[i][col] = key
    THEN CHOOSE i \in 1..Len(lut) :
            /\ lut[i][col] = key
            /\ \A j \in 1..(i - 1) : lut[j][col] # key
    ELSE 0

\* lines 433-452.  icost0 is the local icost as the previous record left it
\* (None: not yet bound); the result is the local icost after these lines.
InventoryCostOf(rec, OC, flds, icost0) ==
    LET OWDI == OC \in Inventory_List
        x0 == IF uicost(flds) THEN rec.InvCost ELSE Some(0 - Ft(1))
        xt == IF IsNone(x0) THEN 0 - Ft(1) ELSE Val(x0)
        i == FirstMatch(iecon_lut, "Occupancy", OC)
    IN  IF OWDI /\ xt = 0 - Ft(1)
        THEN IF i = 0
             THEN icost0
             ELSE Some(iecon_lut[i].AnnualSalesPerSqFt * iecon_lut[i].BusinessInvPctofSales
                        * rec.Area * ((MoneyScale * Res) \div 100))
        ELSE IF xt > 0 - Ft(1)
        THEN Some(Money(Val(rec.InvCost)))
        ELSE Some(0)

(***************************************************************************)
(* Depth-damage interpolation, lines 502-510 and 576-582.                  *)
(***************************************************************************)
l_index(depth) ==
    (IF Floor(depth) < 0 THEN "m" ELSE "p") \o NatStr(Abs(Floor(depth)))
\* a variant of line 508 that takes the sign of the upper column from the floor
u_index_FloorSign(depth) ==
    (IF Floor(depth) < 0 THEN "m" ELSE "p") \o NatStr(Abs(Ceil(depth)))

u_index(depth) ==
    (IF Ceil(depth) < 0 THEN "m" ELSE "p") \o NatStr(Abs(Ceil(depth)))

\* ddf1[l_index] and ddf1[u_index] exist (otherwise KeyError)
HasColumns(ddf1, depth) ==
    /\ l_index(depth) \in DOMAIN ddf1.cols
    /\ u_index(depth) \in DOMAIN ddf1.cols

\* lines 578-582: 100 * Res * damage
Damage(ddf1, depth) ==
    LET d_lower == ddf1.cols[l_index(depth)]
        d_upper == ddf1.cols[u_index(depth)]
        frac == depth - Ft(Floor(depth))
    IN  d_lower * Res + frac * (d_upper - d_lower)

(***************************************************************************)
(* Messages (arcpy.AddWarning / AddError) of one record: what is said, the *)
(* identifier the text carries and the key it names.                       *)
(***************************************************************************)
Msg(what, id, key) == [what |-> what, id |-> id, key |-> key]

\* a user-supplied DDF id that is defined in the full table (lines 521, 606, 685)
UsableOverride(BID, full_list) ==
    /\ ~IsNone(BID)
    /\ Val(BID) # <<>>
    /\ InSeq(Cat(Val(BID)), full_list)

\* lines 544, 629, 710: the test guarding the "reverting to default" warning.
\* "ValueError" when int(BID) raises, else whether the warning is given.
RevertTest(QC, BID) ==
    IF QC /\ ~IsNone(BID) /\ Val(BID) # <<>>
    THEN IF ~IntOk(Val(BID)) THEN "ValueError"
         ELSE IF IntVal(Val(BID)) > 0 THEN "warn" ELSE "quiet"
    ELSE "quiet"

\* a variant of lines 556-561 and 640-645 that tests the zone code 'AE', as the
\* comment of line 553 names it, where the code tests 'CAE'
DefaultTable_AE(flds, OCc, CoastalZoneCode, riverine, coastalA, coastalV) ==
    IF CoastalZoneSupplied(flds) /\ Cat(SliceTo(OCc, 3)) = "RES"
    THEN LET lut1 == IF CoastalZoneCode = "AE" THEN coastalA ELSE riverine
         IN  IF CoastalZoneCode = "VE" \/ CoastalZoneCode = "V" THEN coastalV ELSE lut1
    ELSE riverine

\* lines 556-561 and 640-645: the default table of a building or content lookup
DefaultTable(flds, OCc, CoastalZoneCode, riverine, coastalA, coastalV) ==
    IF CoastalZoneSupplied(flds) /\ Cat(SliceTo(OCc, 3)) = "RES"
    THEN LET lut1 == IF CoastalZoneCode = "CAE" THEN coastalA ELSE riverine
         IN  IF CoastalZoneCode = "VE" \/ CoastalZoneCode = "V" THEN coastalV ELSE lut1
    ELSE riverine

\* the outcome of one of the three loss blocks
Block(err, ddf1, ddf_id, damage, msgs) ==
    [err |-> err, ddf1 |-> ddf1, ddf_id |-> ddf_id, damage |-> damage, msgs |-> msgs]
NoRow == DDF("", "", "", 0)

\* lines 526-529, 611-614, 690-693: the full table is scanned for the id, with a
\* break at the first row that has it
\* a variant of the scan without its break: the last row that has the id
FullRow_NoBreak(full, id) ==
    full[CHOOSE i \in DOMAIN full :
            /\ full[i].DDF_ID = id
            /\ \A j \in (i + 1)..Len(full) : full[j].DDF_ID # id]

FullRow(full, id) == full[FirstMatch(full, "DDF_ID", id)]

\* lines 521-539, 606-624, 685-705: the row of the full table for a usable override
FullBlock(c, BID, full, what) ==
    LET ddf1 == FullRow(full, Cat(Val(BID)))
        fyi == IF ddf1.Occupancy # c.OC /\ c.QC
               THEN {Msg("FYI " \o what \o " DDFID inconsistent", c.uid, Cat(Val(BID)))}
               ELSE {}
    IN  IF ~HasColumns(ddf1, c.depth) THEN Block("KeyError", ddf1, "", 0, fyi)
        ELSE IF ~IntOk(Val(BID)) THEN Block("ValueError", ddf1, "", 0, fyi)
        ELSE Block("", ddf1, IntStr(IntVal(Val(BID))), Damage(ddf1, c.depth), fyi)

\* a variant of lines 570-574 that goes on as the content block does, without
\* sys.exit
BuildingNoMatch_Continue(c, warn) ==
    Block("", NoRow, "-9999", 0,
          warn \cup {Msg("no match for Specific Occupancy ID", "UserDefinedFltyId",
                         c.SpecificOccupId)})

\* lines 570-574: no row of the default building table has the key
BuildingNoMatch(c, warn) ==
    Block("SystemExit", NoRow, "", 0,
          warn \cup {Msg("no match for Specific Occupancy ID", "UserDefinedFltyId",
                         c.SpecificOccupId)})

\* lines 517-595: building loss
BuildingBlock(c) ==
    LET BID == IF ubddf(c.flds) THEN c.rec.BldgDamageFnID ELSE None
        rt == RevertTest(c.QC, BID)
        warn == IF rt = "warn"
                THEN {Msg("non-official Building DDFID, reverting to default", c.uid,
                          Cat(Val(BID)))}
                ELSE {}
        blut == DefaultTable(c.flds, c.OCc, c.CoastalZoneCode,
                             bddf_lut_riverine, bddf_lut_coastalA, bddf_lut_coastalV)
        i == FirstMatch(blut, "SpecificOccupId", c.SpecificOccupId)
    IN  IF UsableOverride(BID, bddf_lut_full_list)
        THEN FullBlock(c, BID, bddf_lut_full, "Building")
        ELSE IF rt = "ValueError" THEN Block("ValueError", NoRow, "", 0, {})
        ELSE IF i = 0
        THEN BuildingNoMatch(c, warn)
        ELSE IF ~HasColumns(blut[i], c.depth) THEN Block("KeyError", blut[i], "", 0, warn)
        ELSE Block("", blut[i], blut[i].DDF_ID, Damage(blut[i], c.depth), warn)

\* lines 602-675: content loss.  b is the outcome of the building block, whose
\* ddf1 and ddf_id are still bound when the default lookup finds nothing; the
\* field name CDDF_ID is then rebound to -9999 (line 670) and row.setValue of
\* line 672 raises.
ContentBlock(c, b) ==
    LET BID == IF ucddf(c.flds) THEN c.rec.ContDamageFnId ELSE None
        rt == RevertTest(c.QC, BID)
        warn == IF rt = "warn"
                THEN {Msg("non-official Content DDFID, reverting to default", c.uid,
                          Cat(Val(BID)))}
                ELSE {}
        clut == DefaultTable(c.flds, c.OCc, c.CoastalZoneCode,
                             cddf_lut_riverine, cddf_lut_coastalA, cddf_lut_coastalV)
        i == FirstMatch(clut, "SpecificOccupId", c.SpecificOccupId)
        miss1 == Msg("something wrong for Content lookup, no match", IntStr(c.counter),
                     c.SpecificOccupId)
        miss2 == Msg("Problem with Content Loss", IntStr(c.counter), c.SpecificOccupId)
    IN  IF UsableOverride(BID, cddf_lut_full_list)
        THEN FullBlock(c, BID, cddf_lut_full, "Content")
        ELSE IF rt = "ValueError" THEN Block("ValueError", b.ddf1, b.ddf_id, 0, {})
        ELSE IF i = 0
        THEN IF ~HasColumns(b.ddf1, c.depth)
             THEN Block("KeyError", b.ddf1, b.ddf_id, 0, warn \cup {miss1})
             ELSE Block("RuntimeError", b.ddf1, b.ddf_id, Damage(b.ddf1, c.depth),
                        warn \cup {miss1, miss2})
        ELSE IF ~HasColumns(clut[i], c.depth) THEN Block("KeyError", clut[i], "", 0, warn)
        ELSE Block("", clut[i], clut[i].DDF_ID, Damage(clut[i], c.depth), warn)

\* a variant of lines 750-753 that leaves damage as the content block bound it
NoDefaultInventory_Stale(cb, warn) == Block("", cb.ddf1, "0", cb.damage, warn)

\* lines 750-753: no default inventory DDF exists for the occupancy class
NoDefaultInventory(cb, warn) == Block("", cb.ddf1, "0", 0, warn)

\* lines 682-769: inventory loss.  cb is the outcome of the content block: its
\* ddf1 stays bound where the inventory block binds none.
InventoryBlock(c, cb) ==
    LET BID == IF uiddf(c.flds) THEN c.rec.InvDamageFnId ELSE None
        rt == RevertTest(c.QC, BID)
        warn == IF rt = "warn"
                THEN {Msg("non-official Inventory DDFID, reverting to default", c.uid,
                          Cat(Val(BID)))}
                ELSE {}
        ilut == iddf_lut_riverine
        i == FirstMatch(ilut, "SpecificOccupId", c.SpecificOccupId)
    IN  IF UsableOverride(BID, iddf_lut_full_list)
        THEN FullBlock(c, BID, iddf_lut_full, "Inventory")
        ELSE IF rt = "ValueError" THEN Block("ValueError", cb.ddf1, "", 0, {})
        ELSE IF c.OC \in Inventory_List
        THEN IF i = 0
             THEN Block("SystemExit", cb.ddf1, "", 0,
                        warn \cup {Msg("something wrong for Inventory lookup, no match",
                                       IntStr(c.counter), c.SpecificOccupId)})
             ELSE IF ~HasColumns(ilut[i], c.depth)
             THEN Block("KeyError", ilut[i], "", 0, warn)
             ELSE Block("", ilut[i], ilut[i].DDF_ID, Damage(ilut[i], c.depth), warn)
        ELSE NoDefaultInventory(cb, warn)

(***************************************************************************)
(* Debris, lines 775-812, and restoration time, lines 822-836.             *)
(***************************************************************************)
\* lines 780-791
DebrisKey(OC, foundationType, depth) ==
    LET fnd == IF foundationType = "4" \/ foundationType = "7" THEN "SG" ELSE "FT"
        rb == OC = "RES1" /\ foundationType = "4"
        bsm == IF rb THEN "B" ELSE "NB"
        dsuf == IF rb
                THEN IF depth < Ft(-4) THEN "-8" ELSE IF depth < Ft(0) THEN "-4"
                     ELSE IF depth < Ft(4) THEN "0" ELSE IF depth < Ft(6) THEN "4"
                     ELSE IF depth < Ft(8) THEN "6" ELSE "8"
                ELSE IF depth < Ft(1) THEN "0" ELSE IF depth < Ft(4) THEN "1"
                     ELSE IF depth < Ft(8) THEN "4" ELSE IF depth < Ft(12) THEN "8"
                     ELSE "12"
    IN  OC \o bsm \o fnd \o dsuf

\* lines 793-796: the loop has no break, so the last matching row stays in ddf1;
\* 0 when no row matches
LastMatch(lut, col, key) ==
    IF \E i \in 1..Len(lut) : lut[i][col] = key
    THEN CHOOSE i \in 1..Len(lut) :
            /\ lut[i][col] = key
            /\ \A j \in (i + 1)..Len(lut) : lut[j][col] # key
    ELSE 0

\* a variant of line 804 that leaves the foundation out of the total
DebrisTotal_NoFoundation(dfin, dstruc, dfound) == dfin + dstruc

\* line 804
DebrisTotal(dfin, dstruc, dfound) == dfin + dstruc + dfound

\* lines 793-804.  ddf0 is the row ddf1 is bound to before the loop.  The
\* tonnages are held in 1/1000 ton (area * rate).
DebrisBlock(c, ddf0) ==
    LET debriskey == DebrisKey(c.OC, c.foundationType, c.depth)
        i == LastMatch(debris_lut, "DebrisID", debriskey)
        ddf1 == IF i = 0 THEN ddf0 ELSE debris_lut[i]
        area == c.rec.Area
    IN  IF {"Finishes", "Structure", "Foundation"} \subseteq DOMAIN ddf1
        THEN [err |-> "", ddf1 |-> ddf1, debriskey |-> debriskey,
              dfin |-> area * ddf1.Finishes, dstruc |-> area * ddf1.Structure,
              dfound |-> area * ddf1.Foundation,
              dtot |-> DebrisTotal(area * ddf1.Finishes, area * ddf1.Structure,
                                   area * ddf1.Foundation)]
        ELSE [err |-> "KeyError", ddf1 |-> ddf1, debriskey |-> debriskey,
              dfin |-> 0, dstruc |-> 0, dfound |-> 0, dtot |-> 0]

\* a variant of lines 824-825 that names a bucket by its lower end, as the
\* debris buckets of lines 789-790 are named
RestKey_LowerEnd(OC, depth) ==
    OC \o (IF depth < Ft(1) THEN "0" ELSE IF depth < Ft(4) THEN "1"
           ELSE IF depth < Ft(8) THEN "4" ELSE IF depth < Ft(12) THEN "8"
           ELSE IF depth < Ft(24) THEN "12" ELSE "24")

\* a variant of lines 824-825 whose buckets include their upper ends
RestKey_Inclusive(OC, depth) ==
    OC \o (IF depth <= Ft(0) THEN "0" ELSE IF depth <= Ft(1) THEN "1"
           ELSE IF depth <= Ft(4) THEN "4" ELSE IF depth <= Ft(8) THEN "8"
           ELSE IF depth <= Ft(12) THEN "12" ELSE "24")

\* lines 824-826
RestKey(OC, depth) ==
    OC \o (IF depth < Ft(0) THEN "0" ELSE IF depth < Ft(1) THEN "1"
           ELSE IF depth < Ft(4) THEN "4" ELSE IF depth < Ft(8) THEN "8"
           ELSE IF depth < Ft(12) THEN "12" ELSE "24")

\* a variant of lines 827-836 that writes 0 days when no row has the key
RestorationBlock_Zero(c, ddf0) ==
    LET RsFnkey == RestKey(c.OC, c.depth)
        i == FirstMatch(rest_lut, "RestFnID", RsFnkey)
    IN  IF i = 0
        THEN [err |-> "", restdays_min |-> 0, restdays_max |-> 0]
        ELSE [err |-> "", restdays_min |-> rest_lut[i].Min_Restor_Days,
              restdays_max |-> rest_lut[i].Max_Restor_Days]

\* lines 827-832.  ddf0 is the row ddf1 is bound to before the loop.
RestorationBlock(c, ddf0) ==
    LET RsFnkey == RestKey(c.OC, c.depth)
        i == FirstMatch(rest_lut, "RestFnID", RsFnkey)
        ddf1 == IF i = 0 THEN ddf0 ELSE rest_lut[i]
    IN  IF {"Min_Restor_Days", "Max_Restor_Days"} \subseteq DOMAIN ddf1
        THEN [err |-> "", restdays_min |-> ddf1.Min_Restor_Days,
              restdays_max |-> ddf1.Max_Restor_Days]
        ELSE [err |-> "KeyError", restdays_min |-> 0, restdays_max |-> 0]

(***************************************************************************)
(* One pass of the loop body, lines 370-840, for the row `rec` of the      *)
(* results feature class with raster value `rastervalue`.  The outcome is  *)
(* the row handed to cursor.updateRow, or the exception that left the      *)
(* loop, with the messages given and the local icost left behind.          *)
(*                                                                         *)
(* Units of the output row: BldgDmgPct, ContDmgPct, InvDmgPct in 1/Res     *)
(* percent; ContentCostUSD, InventoryCostUSD in 1/(MoneyScale*Res)         *)
(* dollars; the three losses in 1/(100*Res) of that; debris in 1/1000 ton. *)
(***************************************************************************)
\* the locals of lines 370-419
Locals(rec, rastervalue, counter, flds, QC) ==
    LET OCc == strip(rec.OccupancyClass)
        foundationType == Cat(strip(rec.FoundationType))
        depth0 == AdjustedDepth(rastervalue, rec.FirstFloorHt)
    IN  [rec |-> rec, flds |-> flds, QC |-> QC, counter |-> counter,
         uid |-> rec.UserDefinedFltyId,
         OCc |-> OCc, OC |-> Cat(OCc), foundationType |-> foundationType,
         depth0 |-> depth0,
         depth |-> IF NotExposed(depth0) THEN 0 ELSE ClampDepth(Val(depth0)),
         CoastalZoneCode |->
            IF CoastalZoneSupplied(flds)
            THEN IF IsNone(rec.flC) THEN "" ELSE Cat(strip(Val(rec.flC)))
            ELSE "0",
         SpecificOccupId |-> SpecificOccupIdOf(OCc, foundationType, rec.NumStories)]

\* a variant that records the depth after the clamp
RecordedDepth_Clamped(depth0, depth) == Some(depth)

\* line 481 records the depth before lines 489-490 clamp it
RecordedDepth(depth0, depth) == depth0

\* a variant of lines 459-477 for a script that sets SOID and the two cost
\* bases on the exposed path only, after the exposure test
NotExposedRow_Late(c, ccost, icost, gridroot) ==
    [SOID |-> "", ContentCostUSD |-> 0, InventoryCostUSD |-> 0,
     GridName |-> gridroot,
     flExp |-> 0, Depth_in_Struc |-> None,
     BDDF_ID |-> "0", BldgDmgPct |-> 0, BldgLossUSD |-> 0,
     CDDF_ID |-> "0", ContDmgPct |-> 0, ContentLossUSD |-> 0,
     IDDF_ID |-> "0", InvDmgPct |-> 0, InventoryLossUSD |-> 0,
     DebrisID |-> "", Debris_Fin |-> None, Debris_Struc |-> None,
     Debris_Found |-> None, Debris_Tot |-> None,
     Restor_Days_Min |-> 0, Restor_Days_Max |-> 0]

\* lines 460-477
NotExposedRow(c, ccost, icost, gridroot) ==
    [SOID |-> c.SpecificOccupId, ContentCostUSD |-> ccost, InventoryCostUSD |-> icost,
     GridName |-> gridroot,
     flExp |-> 0, Depth_in_Struc |-> None,
     BDDF_ID |-> "0", BldgDmgPct |-> 0, BldgLossUSD |-> 0,
     CDDF_ID |-> "0", ContDmgPct |-> 0, ContentLossUSD |-> 0,
     IDDF_ID |-> "0", InvDmgPct |-> 0, InventoryLossUSD |-> 0,
     DebrisID |-> "", Debris_Fin |-> None, Debris_Struc |-> None,
     Debris_Found |-> None, Debris_Tot |-> None,
     Restor_Days_Min |-> 0, Restor_Days_Max |-> 0]

\* a variant of lines 594, 674 and 757 that multiplies the cost by the
\* percentage written at lines 593, 673 and 756 instead of the loss ratio
Loss_ByPercent(damage, cost) == 100 * damage * cost

\* lines 594, 674, 757: the loss ratio times the cost.  damage is held as the
\* percentage in 1/Res percent, so the product is in 1/(100 * Res) of the
\* unit of cost.
Loss(damage, cost) == damage * cost

\* lines 480-481, 591-595, 672-675, 755-769, 808-812, 835-836
ExposedRow(c, ccost, icost, gridroot, b, cb, ib, db, rb) ==
    [SOID |-> c.SpecificOccupId, ContentCostUSD |-> ccost, InventoryCostUSD |-> icost,
     GridName |-> gridroot,
     flExp |-> 1, Depth_in_Struc |-> RecordedDepth(c.depth0, c.depth),
     BDDF_ID |-> b.ddf_id, BldgDmgPct |-> b.damage,
     BldgLossUSD |-> Loss(b.damage, Money(c.rec.Cost)),
     CDDF_ID |-> cb.ddf_id, ContDmgPct |-> cb.damage, ContentLossUSD |-> Loss(cb.damage, ccost),
     IDDF_ID |-> ib.ddf_id, InvDmgPct |-> ib.damage, InventoryLossUSD |-> Loss(ib.damage, icost),
     DebrisID |-> db.debriskey, Debris_Fin |-> Some(db.dfin),
     Debris_Struc |-> Some(db.dstruc), Debris_Found |-> Some(db.dfound),
     Debris_Tot |-> Some(db.dtot),
     Restor_Days_Min |-> rb.restdays_min, Restor_Days_Max |-> rb.restdays_max]

NoRowOut == NotExposedRow([SpecificOccupId |-> ""], 0, 0, "")

Outcome(err, row, icost, msgs) == [err |-> err, row |-> row, icost |-> icost, msgs |-> msgs]

\* lines 822-840
RestorationStage(c, gridroot, ccost, icost1, b, cb, ib, db, rb) ==
    IF rb.err # ""
    THEN Outcome(rb.err, NoRowOut, icost1, b.msgs \cup cb.msgs \cup ib.msgs)
    ELSE Outcome("", ExposedRow(c, ccost, Val(icost1), gridroot, b, cb, ib, db, rb), icost1,
                 b.msgs \cup cb.msgs \cup ib.msgs)

\* lines 775-812
DebrisStage(c, gridroot, ccost, icost1, b, cb, ib, db) ==
    IF db.err # ""
    THEN Outcome(db.err, NoRowOut, icost1, b.msgs \cup cb.msgs \cup ib.msgs)
    ELSE RestorationStage(c, gridroot, ccost, icost1, b, cb, ib, db,
                          RestorationBlock(c, db.ddf1))

\* lines 682-769
InventoryStage(c, gridroot, ccost, icost1, b, cb, ib) ==
    IF ib.err # ""
    THEN Outcome(ib.err, NoRowOut, icost1, b.msgs \cup cb.msgs \cup ib.msgs)
    ELSE DebrisStage(c, gridroot, ccost, icost1, b, cb, ib, DebrisBlock(c, ib.ddf1))

\* lines 602-675
ContentStage(c, gridroot, ccost, icost1, b, cb) ==
    IF cb.err # ""
    THEN Outcome(cb.err, NoRowOut, icost1, b.msgs \cup cb.msgs)
    ELSE InventoryStage(c, gridroot, ccost, icost1, b, cb, InventoryBlock(c, cb))

\* lines 517-595
BuildingStage(c, gridroot, ccost, icost1, b) ==
    IF b.err # ""
    THEN Outcome(b.err, NoRowOut, icost1, b.msgs)
    ELSE ContentStage(c, gridroot, ccost, icost1, b, ContentBlock(c, b))

\* lines 454-481: row.setValue(InventoryCostUSD, icost) raises while icost is not
\* bound; then the exposure test
ExposureStage(c, gridroot, ccost, icost1) ==
    IF IsNone(icost1)
    THEN Outcome("UnboundLocalError", NoRowOut, icost1, {})
    ELSE IF NotExposed(c.depth0)
    THEN Outcome("", NotExposedRow(c, ccost, Val(icost1), gridroot), icost1, {})
    ELSE BuildingStage(c, gridroot, ccost, icost1, BuildingBlock(c))

\* lines 421-455
CostStage(c, gridroot, icost0) ==
    ExposureStage(c, gridroot, ContentCostOf(c.rec, c.OC, c.flds),
                  InventoryCostOf(c.rec, c.OC, c.flds, icost0))

ProcessRow(rec, rastervalue, gridroot, counter, icost0, flds, QC) ==
    CostStage(Locals(rec, rastervalue, counter, flds, QC), gridroot, icost0)

(***************************************************************************)
(* Inputs.  A UDF row holds the attributes of lines 102-115; Depth_Grid is *)
(* the raster value ExtractValuesToPoints adds to it for the current grid. *)
(***************************************************************************)
Chars(oc) ==
    CASE oc = "RES1" -> <<"R", "E", "S", "1">>
      [] oc = "COM1" -> <<"C", "O", "M", "1", " ">>
      [] oc = "GOV1" -> <<"G", "O", "V", "1">>
      [] oc = "IND1" -> <<"I", "N", "D", "1">>

OccupancyClasses == {Chars(oc) : oc \in Occupancies}
FoundationTypes == {<<"4">>, <<"1">>}
Whole(n) == [float |-> FALSE, v |-> Ft(n)]
StoryCounts == {Whole(1)}
FirstFloorHts == {0, Ft(1)}
\* None, the -9999 of a grid without data, and depths around every threshold
Rasters == {None, Some(Ft(-9999)), Some(Ft(-500)), Some(Ft(-9)), Some(1), Some(Ft(30))}
\* a DamageFn id: null, blank, an id of the full tables, and ids of no table
DamageFnIds ==
    {None, Some(<<>>), Some(<<"7", "0", "0">>), Some(<<"9", "9", "9">>), Some(<<"0">>),
     Some(<<"-", "5">>), Some(<<"a", "b", "c">>)}
CoastalCodes ==
    {None, Some(<<"C", "A", "E">>), Some(<<"V", " ">>), Some(<<"V", "E">>), Some(<<"A", "E">>)}
ContentCosts == {None, Some(0), Some(Ft(-1)), Some(Ft(500))}
InvCosts == {None, Some(0), Some(-1), Some(Ft(-1)), Some(Ft(700))}

\* the values an optional attribute takes: None alone when the UDF lacks it
Opt(name, flds, values) == IF name \in flds THEN values ELSE {None}

Records(flds) ==
    [UserDefinedFltyId : {"U7"},
     OccupancyClass : OccupancyClasses,
     FoundationType : FoundationTypes,
     NumStories : StoryCounts,
     Area : {1500},
     Cost : {Ft(1000)},
     FirstFloorHt : FirstFloorHts,
     ContentCost : Opt("ContentCost", flds, ContentCosts),
     InvCost : Opt("InvCost", flds, InvCosts),
     BldgDamageFnID : Opt("BldgDamageFnID", flds, DamageFnIds),
     ContDamageFnId : Opt("ContDamageFnId", flds, DamageFnIds),
     InvDamageFnId : Opt("InvDamageFnId", flds, DamageFnIds),
     flC : Opt("flC", flds, CoastalCodes)]

\* the UDF feature classes explored: which optional attributes they have
Schemas ==
    {{}, {"flC"}, {"BldgDamageFnID"}, {"ContDamageFnId"}, {"InvDamageFnId"},
     {"ContentCost"}, {"InvCost"}, {"flC", "BldgDamageFnID"}, {"flC", "ContDamageFnId"},
     {"BldgDamageFnID", "ContDamageFnId"}, {"ContDamageFnId", "InvDamageFnId"},
     {"InvDamageFnId", "InvCost"}}

\* line 311, os.path.split(dgp)[1]: what follows the last separator of a path
PathTail(p) ==
    IF \E i \in DOMAIN p : p[i] = "/"
    THEN SubSeq(p, (CHOOSE i \in DOMAIN p :
                        p[i] = "/" /\ \A j \in (i + 1)..Len(p) : p[j] # "/") + 1, Len(p))
    ELSE p

\* lines 312, split('.')[0]: what precedes the first period of a name
BeforeDot(s) ==
    IF \E i \in DOMAIN s : s[i] = "."
    THEN SubSeq(s, 1, (CHOOSE i \in DOMAIN s :
                          s[i] = "." /\ \A j \in 1..(i - 1) : s[j] # ".") - 1)
    ELSE s

\* lines 311-313: the name of the result dataset of the grid at path dgp
ResultName(UDFRoot, dgp) ==
    Cat(BeforeDot(UDFRoot)) \o "_" \o Cat(BeforeDot(PathTail(dgp)))

\* a variant of line 315 that keeps the path of the grid as it was given
GridRootOf_Path(dgp) == Cat(dgp)

\* lines 311, 315: the file name of the grid, written to GridName
GridRootOf(dgp) == Cat(PathTail(dgp))

\* line 296: the paths of the depth grids of a run, in the order given
GridNames(n) == [i \in 1..n |-> <<"g", "/", "d", NatStr(i), ".", "t", "i", "f">>]

(***************************************************************************)
(* The state machine.                                                      *)
(*   pc      "for"     line 352, about to take the next row of the cursor  *)
(*           "body"    line 370, a row is taken                            *)
(*           "updated" line 840, cursor.updateRow(row) is done             *)
(*           "done"    line 850, every grid is processed                   *)
(*           "except"  line 851, an exception (SystemExit included) left   *)
(*                     the loops: the bare except of the function takes it *)
(*   DGrids  the depth grids of the run (line 296)                         *)
(*   udf     the rows of the UDF feature class, where the run fixes them   *)
(*   results the rows updated so far, <<grid, row number>>, in order       *)
(*   out     the row last handed to cursor.updateRow                       *)
(*   icost   the local icost, None while it is not bound                   *)
(*   call    used where one function of the script is applied on its own:  *)
(*           its arguments and, once applied, its result                   *)
(***************************************************************************)
VARIABLES QC_Warning, fields, DGrids, udf, dgi, counter, pc, cur, out, results, icost,
          msgs, err, call

vars ==
    <<QC_Warning, fields, DGrids, udf, dgi, counter, pc, cur, out, results, icost, msgs, err,
      call>>

NoCur == [rec |-> CHOOSE r \in Records({}) : TRUE, rastervalue |-> None]

Start ==
    /\ dgi = 1
    /\ counter = 0
    /\ pc = "for"
    /\ cur = NoCur
    /\ out = NoRowOut
    /\ results = <<>>
    /\ icost = None
    /\ msgs = {}
    /\ err = ""

NoCall == [fn |-> "", pc |-> "none"]

\* line 352: the cursor yields the next row
Fetch(rows, rasters) ==
    /\ pc = "for"
    /\ counter < NumRecords
    /\ \E rec \in rows, r \in rasters : cur' = [rec |-> rec, rastervalue |-> r]
    /\ counter' = counter + 1
    /\ pc' = "body"
    /\ UNCHANGED <<call, QC_Warning, fields, DGrids, udf, dgi, out, results, icost, msgs, err>>

Result == ProcessRow(cur.rec, cur.rastervalue, GridRootOf(DGrids[dgi]), counter, icost, fields, QC_Warning)

Updated(o) ==
    /\ o.err = ""
    /\ out' = o.row
    /\ results' = Append(results, <<dgi, counter>>)
    /\ icost' = o.icost
    /\ msgs' = o.msgs

Raised(o) ==
    /\ o.err # ""
    /\ err' = o.err
    /\ icost' = o.icost
    /\ msgs' = o.msgs

\* lines 370-840 without an exception
UpdateRow ==
    /\ pc = "body"
    /\ Updated(Result)
    /\ pc' = "updated"
    /\ UNCHANGED <<call, QC_Warning, fields, DGrids, udf, dgi, counter, cur, err>>

\* lines 370-840 left by an exception, lines 851-859
Except ==
    /\ pc = "body"
    /\ Raised(Result)
    /\ pc' = "except"
    /\ UNCHANGED <<call, QC_Warning, fields, DGrids, udf, dgi, counter, cur, out, results>>

\* back to line 352: the row and its messages are behind
Loop ==
    /\ pc = "updated"
    /\ pc' = "for"
    /\ cur' = NoCur
    /\ out' = NoRowOut
    /\ msgs' = {}
    /\ UNCHANGED <<call, QC_Warning, fields, DGrids, udf, dgi, counter, results, icost, err>>

\* line 297: the cursor is exhausted, the next grid is taken
NextGrid ==
    /\ pc = "for"
    /\ counter = NumRecords
    /\ dgi < Len(DGrids)
    /\ dgi' = dgi + 1
    /\ counter' = 0
    /\ UNCHANGED <<call, QC_Warning, fields, DGrids, udf, pc, cur, out, results, icost, msgs, err>>

\* lines 844-850
Finish ==
    /\ pc = "for"
    /\ counter = NumRecords
    /\ dgi = Len(DGrids)
    /\ pc' = "done"
    /\ UNCHANGED <<call, QC_Warning, fields, DGrids, udf, dgi, counter, cur, out, results, icost, msgs, err>>

(***************************************************************************)
(* Spec: a run over NumGrids depth grids of one UDF feature class, whose   *)
(* NumRecords rows are fixed for the run and met again in every grid.      *)
(***************************************************************************)
UDFRow(uid, oc, fnd, bid, cid, iid, zone) ==
    [UserDefinedFltyId |-> uid, OccupancyClass |-> Chars(oc), FoundationType |-> fnd,
     NumStories |-> Whole(1), Area |-> 1500, Cost |-> Ft(1000), FirstFloorHt |-> Ft(1),
     ContentCost |-> None, InvCost |-> None,
     BldgDamageFnID |-> bid, ContDamageFnId |-> cid, InvDamageFnId |-> iid, flC |-> zone]

UDFRows ==
    { UDFRow("R", "RES1", <<"1">>, None, None, None, None),
      UDFRow("RB", "RES1", <<"4">>, None, None, None, Some(<<"V", "E">>)),
      UDFRow("C", "COM1", <<"1">>, None, None, None, None),
      UDFRow("CB", "COM1", <<"4">>, None, None, None, None),
      UDFRow("G", "GOV1", <<"1">>, None, None, None, None),
      UDFRow("GB", "GOV1", <<"4">>, None, None, None, None),
      UDFRow("I", "IND1", <<"1">>, None, None, None, None),
      UDFRow("CX", "COM1", <<"1">>, Some(<<"7", "0", "0">>), Some(<<"a", "b", "c">>),
             Some(<<"9", "9", "9">>), None) }

\* a row as a UDF with the optional attributes flds holds it
Conform(rec, flds) ==
    [f \in DOMAIN rec |-> IF f \in OptionalFields /\ f \notin flds THEN None ELSE rec[f]]

RunSchemas == {{}, OptionalFields}
RunRasters == {None, Some(Ft(3)), Some(Ft(30))}

Init ==
    /\ QC_Warning \in BOOLEAN
    /\ fields \in RunSchemas
    /\ DGrids = GridNames(NumGrids)
    /\ udf \in [1..NumRecords -> {Conform(r, fields) : r \in UDFRows}]
    /\ call = NoCall
    /\ Start

FetchUDF == Fetch({udf[counter + 1]}, RunRasters)

Next == FetchUDF \/ UpdateRow \/ Except \/ Loop \/ NextGrid \/ Finish

Spec == Init /\ [][Next]_vars

(***************************************************************************)
(* SpecRecord: one grid, every row drawn from Records(fields).             *)
(***************************************************************************)
InitRecord ==
    /\ QC_Warning \in BOOLEAN
    /\ fields \in Schemas
    /\ DGrids = GridNames(1)
    /\ udf = <<>>
    /\ call = NoCall
    /\ Start

FetchAny == Fetch(Records(fields), Rasters)

NextRecord == FetchAny \/ UpdateRow \/ Except \/ Loop \/ Finish

SpecRecord == InitRecord /\ [][NextRecord]_vars
(***************************************************************************)
(* SpecDepth: one grid over a UDF without optional attributes, whose rows  *)
(* stand on the ground (FirstFloorHt 0) and are sampled at every depth in  *)
(* steps of 1/Res ft from below the first column to above the last.        *)
(***************************************************************************)
DepthRecords == {r \in Records({}) : r.FirstFloorHt = 0}
DepthRasters == {Some(d) : d \in Ft(DepthMin - 2)..Ft(DepthMax + 2)}

InitDepth ==
    /\ QC_Warning \in BOOLEAN
    /\ fields = {}
    /\ DGrids = GridNames(1)
    /\ udf = <<>>
    /\ call = NoCall
    /\ Start

FetchDepth == Fetch(DepthRecords, DepthRasters)

NextDepth == FetchDepth \/ UpdateRow \/ Except \/ Loop \/ Finish

SpecDepth == InitDepth /\ [][NextDepth]_vars

(***************************************************************************)
(* SpecInterp: the interpolation of lines 505-510 and 578-582 on its own,  *)
(* applied to one damage-function row and one depth.  The depths run past  *)
(* both ends of the table's columns; the rows are those of the library and *)
(* one whose percentages rise and fall.                                    *)
(***************************************************************************)
ZigZag ==
    [SpecificOccupId |-> "Z", DDF_ID |-> "900", Occupancy |-> "RES1",
     cols |-> [c \in Columns |-> 10 + 7 * ((ColDepth(c) - MinCol) % 3)]]

InterpRows ==
    {bddf_lut_full[i] : i \in DOMAIN bddf_lut_full}
        \cup {cddf_lut_full[i] : i \in DOMAIN cddf_lut_full}
        \cup {iddf_lut_full[i] : i \in DOMAIN iddf_lut_full}
        \cup {ZigZag}

InterpDepths == Ft(DepthMin - 2)..Ft(DepthMax + 2)

InitInterp ==
    /\ QC_Warning = FALSE
    /\ fields = {}
    /\ DGrids = <<>>
    /\ udf = <<>>
    /\ call \in {[fn |-> "damage", pc |-> "call", ddf1 |-> r, depth |-> d,
                  err |-> "", damage |-> 0] : r \in InterpRows, d \in InterpDepths}
    /\ Start

\* lines 505-510, 578-582: looks the two columns up and interpolates
Interpolate ==
    /\ call.pc = "call"
    /\ call' = IF HasColumns(call.ddf1, call.depth)
                THEN [call EXCEPT !.pc = "return",
                                  !.damage = Damage(call.ddf1, call.depth)]
                ELSE [call EXCEPT !.pc = "return", !.err = "KeyError"]
    /\ UNCHANGED <<QC_Warning, fields, DGrids, udf, dgi, counter, pc, cur, out, results,
                   icost, msgs, err>>

NextInterp == Interpolate

SpecInterp == InitInterp /\ [][NextInterp]_vars
(***************************************************************************)
(* SpecKey: the occupancy key of lines 378-418 on its own, resolved for    *)
(* one occupancy class, foundation type and story count as the cursor      *)
(* hands them over: text with blanks around it, NumStories an integer of a *)
(* SHORT field or a float of a DOUBLE field (whole or half).               *)
(***************************************************************************)
KeyClasses ==
    {<<"R", "E", "S", "1">>, <<"R", "E", "S", "1", " ">>, <<"R", "E", "S", "2">>,
     <<"R", "E", "S", "3", "A">>, <<"R", "E", "S", "3", "F", " ">>,
     <<"R", "E", "L", "1">>, <<"C", "O", "M", "1">>, <<"C", "O", "M", "1", "0">>,
     <<"G", "O", "V", "1">>, <<"I", "N", "D", "1">>, <<"A", "G", "R", "1">>}
KeyFoundations == {<<"1">>, <<"4">>, <<"7">>, <<"4", " ">>, <<" ", "1">>}
KeyStories ==
    {[float |-> FALSE, v |-> Ft(n)] : n \in 1..MaxStories}
        \cup {[float |-> TRUE, v |-> v] : v \in Res..Ft(MaxStories)}

InitKey ==
    /\ QC_Warning = FALSE
    /\ fields = {}
    /\ DGrids = <<>>
    /\ udf = <<>>
    /\ call \in {[fn |-> "key", pc |-> "call", OccupancyClass |-> oc, FoundationType |-> f,
                  NumStories |-> n, SpecificOccupId |-> ""] :
                     oc \in KeyClasses, f \in KeyFoundations, n \in KeyStories}
    /\ Start

\* lines 378-418
ResolveKey ==
    /\ call.pc = "call"
    /\ call.fn = "key"
    /\ call' = [call EXCEPT !.pc = "return",
                            !.SpecificOccupId =
                                SpecificOccupIdOf(strip(call.OccupancyClass),
                                                  Cat(strip(call.FoundationType)),
                                                  call.NumStories)]
    /\ UNCHANGED <<QC_Warning, fields, DGrids, udf, dgi, counter, pc, cur, out, results,
                   icost, msgs, err>>

NextKey == ResolveKey

SpecKey == InitKey /\ [][NextKey]_vars

(***************************************************************************)
(* Properties.  Written means that the row of cur has just been written    *)
(* (line 840); Elev and FFH are its sampled elevation and its first-floor  *)
(* height, Unclamped the depth of line 372.                                *)
(***************************************************************************)
Written == pc = "updated"
Elev == cur.rastervalue
FFH == cur.rec.FirstFloorHt
Unclamped == Val(Elev) - FFH
BelowNoExposure == IsNone(Elev) \/ Unclamped < (0 - 500) * Res

\* the first row of a table that carries a damage-function id
RowOfId(lut, id) ==
    lut[CHOOSE i \in DOMAIN lut :
            /\ lut[i].DDF_ID = id
            /\ \A j \in 1..(i - 1) : lut[j].DDF_ID # id]

\* C1: a written record took the not-exposed path exactly when its sampled
\* elevation is null or elevation minus first-floor height is below -500 ft.
\* Then flExp is 0, Depth_in_Struc is null, the three damage-function ids are
\* 0, the three percentages and losses are 0, DebrisID is empty, the four
\* debris values are null and both restoration days are 0.  Every other
\* written record has flExp 1, a negative depth included.
C1_NotExposedPath ==
    Written =>
        /\ (out.flExp = 0) <=> BelowNoExposure
        /\ BelowNoExposure =>
              /\ out.Depth_in_Struc = None
              /\ out.BDDF_ID = "0" /\ out.CDDF_ID = "0" /\ out.IDDF_ID = "0"
              /\ out.BldgDmgPct = 0 /\ out.ContDmgPct = 0 /\ out.InvDmgPct = 0
              /\ out.BldgLossUSD = 0 /\ out.ContentLossUSD = 0
              /\ out.InventoryLossUSD = 0
              /\ out.DebrisID = ""
              /\ out.Debris_Fin = None /\ out.Debris_Struc = None
              /\ out.Debris_Found = None /\ out.Debris_Tot = None
              /\ out.Restor_Days_Min = 0 /\ out.Restor_Days_Max = 0
        /\ ~BelowNoExposure => out.flExp = 1

\* a record at elevation -500 ft on a floor 1 ft up is written as not exposed
C1_Witness ==
    /\ Written
    /\ Elev = Some(Ft(0 - 500)) /\ FFH = Ft(1)
    /\ out.flExp = 0 /\ out.DebrisID = ""

\* the locals of the record in cur
CurLocals == Locals(cur.rec, cur.rastervalue, counter, fields, QC_Warning)

\* no row of a table has the occupancy key
NoKey(lut, key) == \A i \in DOMAIN lut : lut[i].SpecificOccupId # key

\* the record in cur is exposed, brings no usable building override, and its
\* key is in no row of the default building table chosen for it
BuildingMiss ==
    /\ ~BelowNoExposure
    /\ ~(ubddf(fields) /\ UsableOverride(cur.rec.BldgDamageFnID, bddf_lut_full_list))
    /\ NoKey(DefaultTable(fields, CurLocals.OCc, CurLocals.CoastalZoneCode,
                          bddf_lut_riverine, bddf_lut_coastalA, bddf_lut_coastalV),
             CurLocals.SpecificOccupId)

\* C2: when the key of an exposed record is in no row of the selected default
\* building table, the run is aborted: nothing is written for that record,
\* nothing is processed or written after it in this or a later grid, and the
\* records written before it stay as they are.
C2_BuildingMissAborts ==
    [][ /\ (pc = "body" /\ BuildingMiss) =>
               (pc' = "except" /\ results' = results)
        /\ pc = "except" =>
               (pc' = "except" /\ results' = results /\ counter' = counter
                    /\ dgi' = dgi) ]_vars

\* the run has ended on a building miss of the second record of the first
\* grid, the first record being written
C2_Witness ==
    /\ pc = "except" /\ err = "SystemExit"
    /\ BuildingMiss
    /\ \E m \in msgs : m.what = "no match for Specific Occupancy ID"
    /\ dgi = 1 /\ counter = 2
    /\ results = << <<1, 1>> >>

\* the record in cur is exposed, its building loss is computed, it brings no
\* usable content override, and its key is in no row of the default content
\* table chosen for it
ContentMiss ==
    /\ ~BelowNoExposure
    /\ BuildingBlock(CurLocals).err = ""
    /\ ~(ucddf(fields) /\ UsableOverride(cur.rec.ContDamageFnId, cddf_lut_full_list))
    /\ RevertTest(QC_Warning, IF ucddf(fields) THEN cur.rec.ContDamageFnId ELSE None)
            # "ValueError"
    /\ NoKey(DefaultTable(fields, CurLocals.OCc, CurLocals.CoastalZoneCode,
                          cddf_lut_riverine, cddf_lut_coastalA, cddf_lut_coastalV),
             CurLocals.SpecificOccupId)

\* the record in cur is exposed, its building and content losses are computed,
\* its class has default inventory, it brings no usable inventory override,
\* and its key is in no row of the default inventory table
InventoryMiss ==
    /\ ~BelowNoExposure
    /\ BuildingBlock(CurLocals).err = ""
    /\ ContentBlock(CurLocals, BuildingBlock(CurLocals)).err = ""
    /\ CurLocals.OC \in Inventory_List
    /\ ~(uiddf(fields) /\ UsableOverride(cur.rec.InvDamageFnId, iddf_lut_full_list))
    /\ RevertTest(QC_Warning, IF uiddf(fields) THEN cur.rec.InvDamageFnId ELSE None)
            # "ValueError"
    /\ NoKey(iddf_lut_riverine, CurLocals.SpecificOccupId)

\* C3: when the key of an exposed record is in no row of the default content
\* table, or of the default inventory table for a class that has inventory,
\* the record is still completed and written and the run goes on.
C3_MissRecoverable ==
    [][ (pc = "body" /\ (ContentMiss \/ InventoryMiss)) => pc' = "updated" ]_vars

\* an override value that is not blank and is the id of a row of the full table
ValidId(BID, full) ==
    /\ ~IsNone(BID)
    /\ Val(BID) # <<>>
    /\ \E i \in DOMAIN full : full[i].DDF_ID = Cat(Val(BID))

\* what C4 asks of one category of a written row: the recorded id is the
\* user's, the percentage is interpolated in the full-table row of that id at
\* the clamped depth, and the occupancy mismatch is reported, as a warning
\* only, exactly when that row is of another class and QC warnings are on
OverrideUsed(BID, full, id, pct, what) ==
    LET ddf == RowOfId(full, Cat(Val(BID)))
    IN  /\ id = Cat(Val(BID))
        /\ pct = Damage(ddf, ClampDepth(Unclamped))
        /\ (\E m \in msgs : m.what = "FYI " \o what \o " DDFID inconsistent")
              <=> (QC_Warning /\ ddf.Occupancy # Cat(strip(cur.rec.OccupancyClass)))

\* C4: a written exposed record whose override id, for a category, is not
\* blank and is in the full table of that category has its ratio from the
\* full-table row of that id and that id recorded, whatever the coastal zone
\* and whatever the class of that row; a class mismatch gives a warning only,
\* and only with QC warnings on.
C4_ValidOverrideUsed ==
    (Written /\ out.flExp = 1) =>
        /\ (ubddf(fields) /\ ValidId(cur.rec.BldgDamageFnID, bddf_lut_full)) =>
              OverrideUsed(cur.rec.BldgDamageFnID, bddf_lut_full, out.BDDF_ID,
                           out.BldgDmgPct, "Building")
        /\ (ucddf(fields) /\ ValidId(cur.rec.ContDamageFnId, cddf_lut_full)) =>
              OverrideUsed(cur.rec.ContDamageFnId, cddf_lut_full, out.CDDF_ID,
                           out.ContDmgPct, "Content")
        /\ (uiddf(fields) /\ ValidId(cur.rec.InvDamageFnId, iddf_lut_full)) =>
              OverrideUsed(cur.rec.InvDamageFnId, iddf_lut_full, out.IDDF_ID,
                           out.InvDmgPct, "Inventory")

\* a COM1 record in coastal zone CAE with building override 700, a RES1 row
\* of the full table, is written with id 700 and the mismatch warning
C4_Witness ==
    /\ Written /\ out.flExp = 1 /\ QC_Warning
    /\ fields = {"flC", "BldgDamageFnID"}
    /\ cur.rec.BldgDamageFnID = Some(<<"7", "0", "0">>)
    /\ cur.rec.flC = Some(<<"C", "A", "E">>)
    /\ Cat(strip(cur.rec.OccupancyClass)) = "COM1"
    /\ out.BDDF_ID = "700" /\ out.BldgDmgPct > 0
    /\ \E m \in msgs : m.what = "FYI Building DDFID inconsistent"

\* an override value that is not blank and is the id of no row of the full table
InvalidId(BID, full) ==
    /\ ~IsNone(BID)
    /\ Val(BID) # <<>>
    /\ \A i \in DOMAIN full : full[i].DDF_ID # Cat(Val(BID))

\* the row written for the record in cur had it brought no override at all
WithoutOverrides ==
    ProcessRow([cur.rec EXCEPT !.BldgDamageFnID = None, !.ContDamageFnId = None,
                               !.InvDamageFnId = None],
               cur.rastervalue, GridRootOf(DGrids[dgi]), counter, None, fields, QC_Warning).row

\* the 'reverting to default' warning of a category is among the messages
Reverting(what) ==
    \E m \in msgs : m.what = "non-official " \o what \o " DDFID, reverting to default"

\* C5: an override id that is not blank and is in no row of the full table,
\* whatever its text, never ends the run; the record is written as it would
\* be without the override, and the 'reverting to default' warning of the
\* category is given exactly when QC warnings are on.
C5_InvalidOverrideReverts ==
    LET b == ubddf(fields) /\ InvalidId(cur.rec.BldgDamageFnID, bddf_lut_full)
        c == ucddf(fields) /\ InvalidId(cur.rec.ContDamageFnId, cddf_lut_full)
        i == uiddf(fields) /\ InvalidId(cur.rec.InvDamageFnId, iddf_lut_full)
    IN  /\ (pc = "except" /\ (b \/ c \/ i)) => err # "ValueError"
        /\ (Written /\ out.flExp = 1) =>
              /\ b => (Reverting("Building") <=> QC_Warning)
              /\ c => (Reverting("Content") <=> QC_Warning)
              /\ i => (Reverting("Inventory") <=> QC_Warning)
              /\ (fields \subseteq {"BldgDamageFnID", "ContDamageFnId", "InvDamageFnId"}
                    /\ (b \/ c \/ i)
                    /\ ~ValidId(cur.rec.BldgDamageFnID, bddf_lut_full)
                    /\ ~ValidId(cur.rec.ContDamageFnId, cddf_lut_full)
                    /\ ~ValidId(cur.rec.InvDamageFnId, iddf_lut_full))
                  => out = WithoutOverrides

\* the zone code of the record in cur, blanks trimmed; empty when it is null
ZoneCode == IF IsNone(cur.rec.flC) THEN "" ELSE Cat(strip(Val(cur.rec.flC)))
IsRES == Cat(SliceTo(strip(cur.rec.OccupancyClass), 3)) = "RES"

\* the default table C6 names for the record in cur
Selected(riverine, coastalA, coastalV) ==
    IF "flC" \in fields /\ IsRES /\ ZoneCode = "CAE" THEN coastalA
    ELSE IF "flC" \in fields /\ IsRES /\ ZoneCode \in {"V", "VE"} THEN coastalV
    ELSE riverine

\* the recorded id and percentage are those of a row of lut with the row's key
FromTable(lut, id, pct) ==
    \E i \in DOMAIN lut :
        /\ lut[i].SpecificOccupId = out.SOID
        /\ lut[i].DDF_ID = id
        /\ pct = Damage(lut[i], ClampDepth(Unclamped))

NoInventory ==
    /\ Cat(strip(cur.rec.OccupancyClass)) \notin Inventory_List
    /\ ~(uiddf(fields) /\ ValidId(cur.rec.InvDamageFnId, iddf_lut_full))

\* C7: an exposed record of a class outside the inventory-eligible list, with
\* no usable inventory override, is written with inventory ratio 0, IDDF_ID 0
\* and inventory loss 0; the inventory table is not searched for it, so that
\* no inventory lookup miss is ever reported for it.
C7_NoInventoryForOtherClasses ==
    NoInventory =>
        /\ (Written /\ out.flExp = 1) =>
              (out.InvDmgPct = 0 /\ out.IDDF_ID = "0" /\ out.InventoryLossUSD = 0)
        /\ pc \in {"updated", "except"} =>
              ~\E m \in msgs : m.what = "something wrong for Inventory lookup, no match"

\* a RES1 record with an inventory override in no row of the full table is
\* written with building and content losses and no inventory loss
C7_Witness ==
    /\ Written /\ out.flExp = 1
    /\ Cat(strip(cur.rec.OccupancyClass)) = "RES1"
    /\ uiddf(fields) /\ cur.rec.InvDamageFnId = Some(<<"9", "9", "9">>)
    /\ out.BldgDmgPct > 0 /\ out.ContDmgPct > 0
    /\ out.IDDF_ID = "0" /\ out.InvDmgPct = 0 /\ out.InventoryLossUSD = 0

\* C8: for every depth in [-4, 24] and every row that has all the columns
\* m4..m1, p0..p24, the two column keys are among the columns, the
\* interpolated ratio lies between the row's values at floor(depth) and at
\* ceil(depth), both included, and equals the row's value at a whole depth;
\* for a depth in (-1, 0) the keys are m1 and p0.
C8_Interpolation ==
    (call.pc = "return" /\ call.depth \in Ft(0 - 4)..Ft(24)) =>
        LET d == call.depth
            lo == call.ddf1.cols[ColName(Floor(d))]
            hi == call.ddf1.cols[ColName(Ceil(d))]
        IN  /\ call.err = ""
            /\ l_index(d) \in Columns /\ u_index(d) \in Columns
            /\ \/ lo * Res <= call.damage /\ call.damage <= hi * Res
               \/ hi * Res <= call.damage /\ call.damage <= lo * Res
            /\ d % Res = 0 => call.damage = Res * call.ddf1.cols[ColName(d \div Res)]
            /\ (0 - Res < d /\ d < 0) => (l_index(d) = "m1" /\ u_index(d) = "p0")

\* the depth nearest below 0 is interpolated strictly between m1 and p0 of a
\* row whose p0 is the greater
C8_Witness ==
    /\ call.pc = "return" /\ call.err = ""
    /\ call.depth = 0 - 1
    /\ call.ddf1.cols["m1"] * Res < call.damage
    /\ call.damage < call.ddf1.cols["p0"] * Res

\* the three percentages of the written row are the values, in the column of
\* a whole depth, of the rows whose ids it records (0 where it records no
\* inventory function)
RatiosAt(depth) ==
    LET col == ColName(depth)
    IN  /\ out.BldgDmgPct = Res * RowOfId(bddf_lut_full, out.BDDF_ID).cols[col]
        /\ out.ContDmgPct = Res * RowOfId(cddf_lut_full, out.CDDF_ID).cols[col]
        /\ out.InvDmgPct = IF out.IDDF_ID = "0" THEN 0
                           ELSE Res * RowOfId(iddf_lut_full, out.IDDF_ID).cols[col]

\* C9: depth is clamped, not rejected: a written exposed record whose
\* adjusted depth is above 24 ft has the three ratios of depth 24, and one
\* whose adjusted depth is below -4 ft (down to -500 ft) those of depth -4.
C9_Clamping ==
    (Written /\ out.flExp = 1) =>
        /\ Unclamped > Ft(24) => RatiosAt(24)
        /\ Unclamped < Ft(0 - 4) => RatiosAt(0 - 4)

\* a record 9 ft or more below its first floor is written with the ratios of
\* -4 ft, and these are not zero
C9_Witness ==
    /\ Written /\ out.flExp = 1
    /\ Unclamped <= Ft(0 - 9)
    /\ RatiosAt(0 - 4)
    /\ out.BldgDmgPct > 0 /\ out.InvDmgPct > 0

\* C10: the depth recorded for an exposed record is elevation minus
\* first-floor height as it is, outside [-4, 24] too; the clamp comes after
\* it and after the not-exposed test, which a record below -500 ft meets
\* although its clamped depth would not.
C10_RecordedDepthUnclamped ==
    Written =>
        /\ out.flExp = 1 => out.Depth_in_Struc = Some(Val(Elev) - FFH)
        /\ (~IsNone(Elev) /\ Val(Elev) - FFH < Ft(0 - 500)) =>
              (out.flExp = 0 /\ out.Depth_in_Struc = None)

\* a record is written with a depth of 29 ft and the building ratio of 24 ft
C10_Witness ==
    /\ Written /\ out.flExp = 1
    /\ Elev = Some(Ft(30)) /\ FFH = Ft(1)
    /\ out.Depth_in_Struc = Some(Ft(29))
    /\ out.BldgDmgPct = Res * RowOfId(bddf_lut_full, out.BDDF_ID).cols["p24"]

\* the key C11 describes, for a trimmed class, a trimmed foundation type and a
\* story count in 1/Res stories
KeyPrefix(OCc) ==
    IF Cat(OCc) = "REL1" THEN "RE1"
    ELSE Cat(SubSeq(OCc, 1, 1)) \o Cat(SubSeq(OCc, 4, Len(OCc)))
KeyMiddle(OCc, n) ==
    LET f4 == Cat(SubSeq(OCc, 1, 4))
    IN  IF f4 = "RES3" THEN (IF n > Ft(4) THEN "5" ELSE IF n > Ft(2) THEN "3" ELSE "1")
        ELSE IF f4 = "RES1"
        THEN (IF n > Ft(3) THEN "3" ELSE IF n % Res = 0 THEN NatStr(n \div Res) ELSE "S")
        ELSE IF f4 = "RES2" THEN "1"
        ELSE IF n > Ft(6) THEN "H" ELSE IF n > Ft(3) THEN "M" ELSE "L"
KeySuffix(fnd) == IF fnd = "4" THEN "B" ELSE "N"

\* C11: for every occupancy class, foundation type and story count the key is
\* prefix + middle + suffix: the prefix the first character of the trimmed
\* class and its characters after the third (RE1 for REL1); the suffix B
\* exactly for the trimmed foundation type 4, else N; the middle, for RES3*,
\* 5 above 4 stories, 3 above 2, else 1; for RES1 the digit of the stories
\* capped at 3 when whole, else S; for RES2 always 1; for the others H above
\* 6 stories, M above 3, else L.
C11_OccupancyKey ==
    (call.fn = "key" /\ call.pc = "return") =>
        call.SpecificOccupId =
            KeyPrefix(strip(call.OccupancyClass))
                \o KeyMiddle(strip(call.OccupancyClass), call.NumStories.v)
                \o KeySuffix(Cat(strip(call.FoundationType)))

\* the key of class REL1, foundation type 1 and 1 story has been resolved
REL1Resolved ==
    /\ call.fn = "key" /\ call.pc = "return"
    /\ call.OccupancyClass = <<"R", "E", "L", "1">>
    /\ call.FoundationType = <<"1">>
    /\ call.NumStories.v = Ft(1)

\* C12, as stated: the key of class REL1, foundation type 1 and 1 story is
\* RE11N.
C12_REL1KeyAsStated == REL1Resolved => call.SpecificOccupId = "RE11N"

\* C12: the key of class REL1, foundation type 1 and 1 story is RE1LN: the
\* prefix RE1, the middle L of a class outside RES1, RES2, RES3* with at most
\* 3 stories, and the suffix N.
C12_REL1Key == REL1Resolved => call.SpecificOccupId = "RE1LN"

C12_Witness == REL1Resolved /\ call.SpecificOccupId = "RE1LN"

\* the end-to-end scenario: class RES1, foundation type 4, 1 story, first
\* floor 1.0 ft up, sampled elevation 3.0 ft, no override id and no zone code
Scenario ==
    /\ Cat(strip(cur.rec.OccupancyClass)) = "RES1"
    /\ Cat(strip(cur.rec.FoundationType)) = "4"
    /\ cur.rec.NumStories = Whole(1)
    /\ FFH = Ft(1) /\ Elev = Some(Ft(3))
    /\ IsNone(cur.rec.BldgDamageFnID) /\ IsNone(cur.rec.ContDamageFnId)
    /\ IsNone(cur.rec.InvDamageFnId) /\ IsNone(cur.rec.flC)

\* the row written is exposed at 2.0 ft with the key `key` and the first row
\* of the riverine building table that has this key, read at 2 ft
ScenarioRow(row, key) ==
    /\ row.flExp = 1
    /\ row.Depth_in_Struc = Some(Ft(2))
    /\ row.SOID = key
    /\ \E i \in DOMAIN bddf_lut_riverine :
          /\ bddf_lut_riverine[i].SpecificOccupId = key
          /\ \A j \in 1..(i - 1) : bddf_lut_riverine[j].SpecificOccupId # key
          /\ row.BDDF_ID = bddf_lut_riverine[i].DDF_ID
          /\ row.BldgDmgPct = Res * bddf_lut_riverine[i].cols["p2"]

\* C13, as stated: the record of the scenario is written exposed at 2.0 ft,
\* with the key RES11B and the riverine building row of that key.
C13_ScenarioAsStated ==
    [][ (pc = "body" /\ Scenario) => (pc' = "updated" /\ ScenarioRow(out', "RES11B")) ]_vars

\* C13: the record of the scenario is written exposed at 2.0 ft, with the key
\* R11B (R, the 1 after the third character of RES1, 1 story, B) and the
\* riverine building row of that key.
C13_Scenario ==
    [][ (pc = "body" /\ Scenario) => (pc' = "updated" /\ ScenarioRow(out', "R11B")) ]_vars

C13_Witness == Written /\ Scenario /\ ScenarioRow(out, "R11B") /\ out.BDDF_ID = "106"

\* the content-cost basis C14 describes for the record in cur, as money
StatedContentCost ==
    LET OC == Cat(strip(cur.rec.OccupancyClass))
        halves == IF OC \in Content_x_0p5 THEN 1
                  ELSE IF OC \in Content_x_1p0 THEN 2
                  ELSE IF OC \in Content_x_1p5 THEN 3 ELSE 0
    IN  IF "ContentCost" \notin fields \/ IsNone(cur.rec.ContentCost)
        THEN (cur.rec.Cost * halves * MoneyScale) \div 2
        ELSE Val(cur.rec.ContentCost) * MoneyScale

\* C14: the content cost written is the building cost times 0.5, 1.0, 1.5 or
\* 0 by the class when the UDF has no ContentCost column or the record's
\* value is null, and otherwise the user's value as it is, whatever it is:
\* zero and negative values too.
C14_ContentCostBasis == Written => out.ContentCostUSD = StatedContentCost

\* the inventory-cost basis C15 describes for the record in cur, as money; for
\* a class with default inventory and no economic-parameters row nothing can
\* be computed and nothing of another record may be used: 0
StatedInventoryCost ==
    LET OC == Cat(strip(cur.rec.OccupancyClass))
        user == "InvCost" \in fields /\ ~IsNone(cur.rec.InvCost)
                    /\ Val(cur.rec.InvCost) >= 0
        rows == {i \in DOMAIN iecon_lut : iecon_lut[i].Occupancy = OC}
        i == CHOOSE i \in rows : \A j \in rows : i <= j
    IN  IF user THEN Val(cur.rec.InvCost) * MoneyScale
        ELSE IF OC \in Inventory_List /\ rows # {}
        THEN (iecon_lut[i].AnnualSalesPerSqFt * iecon_lut[i].BusinessInvPctofSales
                * cur.rec.Area * MoneyScale * Res) \div 100
        ELSE 0

\* C15: the inventory cost written is the user's value when there is one and
\* it is not negative; otherwise, for a class with default inventory, sales
\* per square foot times inventory percentage times area over 100 from the
\* economic-parameters row of the class; otherwise 0.  It is never unbound
\* and never what an earlier record left behind.
C15_InventoryCostBasis ==
    /\ Written => out.InventoryCostUSD = StatedInventoryCost
    /\ pc = "except" => err # "UnboundLocalError"

\* the debris key C16 describes for the record in cur, at the depth used for
\* the lookups
StatedDebrisKey ==
    LET OC == Cat(strip(cur.rec.OccupancyClass))
        fnd == Cat(strip(cur.rec.FoundationType))
        depth == ClampDepth(Unclamped)
        basement == OC = "RES1" /\ fnd = "4"
        bucket == IF basement
                  THEN IF depth <= Ft(0 - 4) THEN "-8" ELSE IF depth < 0 THEN "-4"
                       ELSE IF depth < Ft(4) THEN "0" ELSE IF depth < Ft(6) THEN "4"
                       ELSE IF depth < Ft(8) THEN "6" ELSE "8"
                  ELSE IF depth < Ft(1) THEN "0" ELSE IF depth < Ft(4) THEN "1"
                       ELSE IF depth < Ft(8) THEN "4" ELSE IF depth < Ft(12) THEN "8"
                       ELSE "12"
    IN  OC \o (IF basement THEN "B" ELSE "NB")
           \o (IF fnd \in {"4", "7"} THEN "SG" ELSE "FT") \o bucket

\* C16: the debris key of a written exposed record is class + basement flag
\* + foundation group + depth bucket: B only for RES1 on foundation 4, else
\* NB; SG for foundation 4 or 7, else FT; the bucket, for RES1 with basement,
\* -8 at a depth of -4 or less, -4 below 0, 0 below 4, 4 below 6, 6 below 8,
\* else 8, and for the others 0 below 1, 1 below 4, 4 below 8, 8 below 12,
\* else 12.
C16_DebrisKey == (Written /\ out.flExp = 1) => out.DebrisID = StatedDebrisKey

\* the debris key and the restoration key of the record in cur are in no row
\* of their tables
NoDebrisRow ==
    \A i \in DOMAIN debris_lut :
        debris_lut[i].DebrisID
            # DebrisKey(CurLocals.OC, CurLocals.foundationType, CurLocals.depth)
NoRestRow ==
    \A i \in DOMAIN rest_lut :
        rest_lut[i].RestFnID # RestKey(CurLocals.OC, CurLocals.depth)

\* the tonnages of a row are those of a debris row that has the row's key,
\* and its days those of a restoration row that has the record's key
OwnDebrisRow(row) ==
    \E i \in DOMAIN debris_lut :
        /\ debris_lut[i].DebrisID = row.DebrisID
        /\ row.Debris_Fin = Some(cur.rec.Area * debris_lut[i].Finishes)
        /\ row.Debris_Struc = Some(cur.rec.Area * debris_lut[i].Structure)
        /\ row.Debris_Found = Some(cur.rec.Area * debris_lut[i].Foundation)
OwnRestRow(row) ==
    \E i \in DOMAIN rest_lut :
        /\ rest_lut[i].RestFnID = RestKey(CurLocals.OC, CurLocals.depth)
        /\ row.Restor_Days_Min = rest_lut[i].Min_Restor_Days
        /\ row.Restor_Days_Max = rest_lut[i].Max_Restor_Days

\* C17: when no debris row has the debris key of an exposed record, or no
\* restoration row its restoration key, the run stops with an error and the
\* record is not written; an exposed record that is written has its tonnages
\* and its days from rows with its own keys, never from a row left over.
C17_DebrisRestorationMissStops ==
    [][ pc = "body" =>
          /\ (~BelowNoExposure /\ (NoDebrisRow \/ NoRestRow)) =>
                (pc' = "except" /\ err' # "" /\ results' = results)
          /\ (pc' = "updated" /\ out'.flExp = 1) =>
                (OwnDebrisRow(out') /\ OwnRestRow(out')) ]_vars

\* the run has stopped on a record whose debris row exists and whose
\* restoration key is in no row
C17_Witness ==
    /\ pc = "except" /\ err = "KeyError"
    /\ ~BelowNoExposure /\ ~NoDebrisRow /\ NoRestRow
    /\ msgs = {}

\* the restoration bucket C18 gives a depth
StatedRestBucket(depth) ==
    IF depth < 0 THEN "0" ELSE IF depth < Ft(1) THEN "1" ELSE IF depth < Ft(4) THEN "4"
    ELSE IF depth < Ft(8) THEN "8" ELSE IF depth < Ft(12) THEN "12" ELSE "24"

\* the days of a row are those of a restoration row with the key
DaysOfKey(row, key) ==
    \E i \in DOMAIN rest_lut :
        /\ rest_lut[i].RestFnID = key
        /\ row.Restor_Days_Min = rest_lut[i].Min_Restor_Days
        /\ row.Restor_Days_Max = rest_lut[i].Max_Restor_Days

\* C18: the restoration key of an exposed record is its class followed by
\* the bucket of its depth, 0 below 0, 1 below 1, 4 below 4, 8 below 8, 12
\* below 12 and 24 from 12 on, and the minimum and maximum days written are
\* those of the restoration row with that key.
C18_RestorationKey ==
    (Written /\ out.flExp = 1) =>
        DaysOfKey(out, Cat(strip(cur.rec.OccupancyClass))
                           \o StatedRestBucket(ClampDepth(Unclamped)))

\* a RES1 record at exactly 12 ft is written with the days of the row RES124
C18_Witness ==
    /\ Written /\ out.flExp = 1
    /\ Unclamped = Ft(12)
    /\ Cat(strip(cur.rec.OccupancyClass)) = "RES1"
    /\ DaysOfKey(out, "RES124")
    /\ ~DaysOfKey(out, "RES112")

\* an exposed record at a depth of exactly 2.0 ft has been written
WrittenAtTwoFeet == Written /\ out.flExp = 1 /\ Unclamped = Ft(2)

\* C19, as stated: at a depth of 2.0 ft the restoration bucket is 1.
C19_BucketAtTwoFeetAsStated ==
    WrittenAtTwoFeet => DaysOfKey(out, Cat(strip(cur.rec.OccupancyClass)) \o "1")

\* C19: at a depth of 2.0 ft the restoration bucket is 4 (2.0 is not below
\* 1 and is below 4): the days written are those of the row class + 4.
C19_BucketAtTwoFeet ==
    WrittenAtTwoFeet => DaysOfKey(out, Cat(strip(cur.rec.OccupancyClass)) \o "4")

\* a COM1 record at 2.0 ft is written with the days of the row COM14
C19_Witness ==
    /\ WrittenAtTwoFeet
    /\ Cat(strip(cur.rec.OccupancyClass)) = "COM1"
    /\ DaysOfKey(out, "COM14")

\* the outcome of the record in cur processed with nothing left behind by an
\* earlier record
Afresh ==
    ProcessRow(cur.rec, cur.rastervalue, GridRootOf(DGrids[dgi]), counter, None, fields, QC_Warning)

\* C20: what is written for a record depends on the record, its sampled
\* elevation and the tables only: after whatever records came before, in
\* this grid or an earlier one, the outcome is the one the record has when it
\* is processed with nothing carried over.
C20_NoCarryOver ==
    /\ Written => (Afresh.err = "" /\ Afresh.row = out)
    /\ pc = "except" => Afresh.err = err

\* the outcome of the record in cur in the run that differs in the QC flag only
OtherFlag ==
    ProcessRow(cur.rec, cur.rastervalue, GridRootOf(DGrids[dgi]), counter, icost, fields, ~QC_Warning)

\* C21: the QC flag decides about warnings only: whatever the record, the run
\* with the other flag writes the same row for it, or stops at it as well.
C21_FlagOnlyWarnings ==
    [][ pc = "body" =>
          /\ pc' = "updated" => (OtherFlag.err = "" /\ OtherFlag.row = out')
          /\ pc' = "except" => OtherFlag.err # "" ]_vars

\* the texts of the diagnostics given when a lookup finds no row
MissTexts ==
    { "no match for Specific Occupancy ID",
      "something wrong for Content lookup, no match",
      "something wrong for Inventory lookup, no match" }

\* C22: every diagnostic of a lookup miss, fatal for a building and not so for
\* content and inventory, names the record by the value of its
\* UserDefinedFltyId attribute and carries the key that was not matched.
C22_MissNamesRecord ==
    pc = "body" =>
        \A m \in Result.msgs :
            m.what \in MissTexts =>
                (m.id = cur.rec.UserDefinedFltyId /\ m.key = CurLocals.SpecificOccupId)

\* every percentage of the rows of lut that carry the id is within 0 to 100
WithinHundred(lut, id) ==
    \A i \in DOMAIN lut :
        lut[i].DDF_ID = id => \A col \in Columns : lut[i].cols[col] \in 0..100

\* pct, in 1/Res percent, is a ratio within 0 to 1 and loss is within 0 to cost
RatioBounded(pct, loss, cost) ==
    /\ pct \in 0..(100 * Res)
    /\ 0 <= loss /\ loss <= 100 * Res * cost

\* C23: for an exposed record and each of building, content and inventory the
\* loss written is the loss ratio times the cost basis of the category and
\* the percentage written is 100 times the ratio; when the percentages of the
\* table row are within 0 to 100 and the cost basis is not negative, the ratio
\* is within 0 to 1 and the loss is between 0 and the cost basis.
C23_LossIsRatioTimesCost ==
    (Written /\ out.flExp = 1) =>
        /\ out.BldgLossUSD = out.BldgDmgPct * (MoneyScale * cur.rec.Cost)
        /\ out.ContentLossUSD = out.ContDmgPct * out.ContentCostUSD
        /\ out.InventoryLossUSD = out.InvDmgPct * out.InventoryCostUSD
        /\ (WithinHundred(bddf_lut_full, out.BDDF_ID) /\ cur.rec.Cost >= 0) =>
               RatioBounded(out.BldgDmgPct, out.BldgLossUSD, MoneyScale * cur.rec.Cost)
        /\ (WithinHundred(cddf_lut_full, out.CDDF_ID) /\ out.ContentCostUSD >= 0) =>
               RatioBounded(out.ContDmgPct, out.ContentLossUSD, out.ContentCostUSD)
        /\ (WithinHundred(iddf_lut_full, out.IDDF_ID) /\ out.InventoryCostUSD >= 0) =>
               RatioBounded(out.InvDmgPct, out.InventoryLossUSD, out.InventoryCostUSD)

\* an exposed commercial record is written with a loss in each of the three
\* categories, each ratio strictly between 0 and 1
C23_Witness ==
    /\ Written /\ out.flExp = 1
    /\ out.BldgDmgPct \in 1..(100 * Res - 1) /\ out.BldgLossUSD > 0
    /\ out.ContDmgPct \in 1..(100 * Res - 1) /\ out.ContentLossUSD > 0
    /\ out.InvDmgPct \in 1..(100 * Res - 1) /\ out.InventoryLossUSD > 0
    /\ out.InventoryLossUSD < 100 * Res * out.InventoryCostUSD

\* the first row of lut, in the order of the table, whose column col holds key
FirstRow(lut, col, key) ==
    lut[CHOOSE i \in DOMAIN lut :
            /\ lut[i][col] = key
            /\ \A j \in 1..(i - 1) : lut[j][col] # key]

HasRow(lut, col, key) == \E i \in DOMAIN lut : lut[i][col] = key

\* C24: every lookup stops at the first row that matches: where a table holds
\* a key more than once, an exposed record written without overrides and
\* without a coastal zone takes its building, content and inventory function,
\* its inventory economics, its debris rates and its restoration days from
\* the first row of the table with its key.
C24_FirstRowWins ==
    (Written /\ out.flExp = 1 /\ fields = {}) =>
        /\ out.BDDF_ID = FirstRow(bddf_lut_riverine, "SpecificOccupId", out.SOID).DDF_ID
        /\ HasRow(cddf_lut_riverine, "SpecificOccupId", out.SOID) =>
              out.CDDF_ID = FirstRow(cddf_lut_riverine, "SpecificOccupId", out.SOID).DDF_ID
        /\ HasRow(iddf_lut_riverine, "SpecificOccupId", out.SOID) =>
              out.IDDF_ID = FirstRow(iddf_lut_riverine, "SpecificOccupId", out.SOID).DDF_ID
        /\ HasRow(iecon_lut, "Occupancy", CurLocals.OC) =>
              LET e == FirstRow(iecon_lut, "Occupancy", CurLocals.OC)
              IN  out.InventoryCostUSD =
                      (e.AnnualSalesPerSqFt * e.BusinessInvPctofSales * cur.rec.Area
                          * MoneyScale * Res) \div 100
        /\ LET d == FirstRow(debris_lut, "DebrisID", out.DebrisID)
           IN  /\ out.Debris_Fin = Some(cur.rec.Area * d.Finishes)
               /\ out.Debris_Struc = Some(cur.rec.Area * d.Structure)
               /\ out.Debris_Found = Some(cur.rec.Area * d.Foundation)
        /\ LET r == FirstRow(rest_lut, "RestFnID", RestKey(CurLocals.OC, CurLocals.depth))
           IN  /\ out.Restor_Days_Min = r.Min_Restor_Days
               /\ out.Restor_Days_Max = r.Max_Restor_Days

\* the k-th record of a run over grids of NumRecords records each
Slot(k) == <<((k - 1) \div NumRecords) + 1, ((k - 1) % NumRecords) + 1>>

\* the number of records written when the run stands at its present place
Behind == (dgi - 1) * NumRecords + (IF pc = "body" THEN counter - 1 ELSE counter)

\* the records are written grid after grid and, within a grid, in the order
\* of the input, each once, under the file name of the grid
InOrder ==
    /\ Len(results) = Behind
    /\ \A k \in DOMAIN results : results[k] = Slot(k)
    /\ pc \in {"body", "updated"} => cur.rec = udf[counter]
    /\ Written => out.GridName = "d" \o NatStr(dgi) \o ".tif"
    /\ pc = "done" => Len(results) = Len(DGrids) * NumRecords

\* the place of the run in its course: every step of the run moves it on
Rank ==
    4 * ((dgi - 1) * (NumRecords + 1) + counter)
        + (CASE pc = "body" -> 1 [] pc = "updated" -> 2 [] pc = "for" -> 3 [] OTHER -> 4)

\* C25: while no fatal error occurs the grids are processed one after another
\* in the order given and the records of each grid once each in the order of
\* the input; each record written, exposed or not, carries the file name of
\* its grid as GridName; every step brings the run nearer to its end, which
\* without an error comes after the last record of the last grid.
C25_GridByGridInOrder ==
    /\ [](err = "" => InOrder)
    /\ [](Rank <= 4 * (Len(DGrids) * (NumRecords + 1) + 1))
    /\ [][Rank' > Rank]_vars

\* the run is over without an error, the last record of the last grid being
\* the last one written
C25_Witness ==
    /\ pc = "done" /\ err = ""
    /\ Len(DGrids) > 1
    /\ Len(results) = Len(DGrids) * NumRecords
    /\ results[Len(results)] = <<Len(DGrids), NumRecords>>

(***************************************************************************)
(* SpecNames: the result datasets of a run over NumGrids distinct grid     *)
(* paths.  call.datasets holds, by name, the datasets of the results       *)
(* geodatabase and the grid each was extracted from.                       *)
(***************************************************************************)
GridPaths ==
    { <<"a", "/", "g", ".", "t">>, <<"b", "/", "g", ".", "t">>, <<"a", "/", "g", ".", "i">>,
      <<"a", "/", "h", ".", "t">>, <<"a", "/", "g", "2", ".", "t">>, <<"g", ".", "t">> }

UDFRoots == { <<"u", ".", "s", "h", "p">>, <<"u">> }

InitNames ==
    /\ QC_Warning = FALSE
    /\ fields = {}
    /\ DGrids \in {g \in [1..NumGrids -> GridPaths] :
                        \A i, j \in 1..NumGrids : i # j => g[i] # g[j]}
    /\ udf = <<>>
    /\ call \in {[fn |-> "extract", pc |-> "for", UDFRoot |-> u, i |-> 0, datasets |-> {}] :
                     u \in UDFRoots}
    /\ Start

\* lines 297-320 with overwriteOutput of line 67: the dataset of the next grid
\* is written under its name, in place of a dataset of that name
ExtractValuesToPoints ==
    /\ call.fn = "extract" /\ call.pc = "for"
    /\ call.i < Len(DGrids)
    /\ LET dgp == DGrids[call.i + 1]
           x == ResultName(call.UDFRoot, dgp)
       IN  call' = [call EXCEPT !.i = call.i + 1,
                                !.datasets = {d \in call.datasets : d.name # x}
                                                \cup {[name |-> x, grid |-> dgp]}]
    /\ UNCHANGED <<QC_Warning, fields, DGrids, udf, dgi, counter, pc, cur, out, results,
                   icost, msgs, err>>

\* line 297: no grid is left
EndOfGrids ==
    /\ call.fn = "extract" /\ call.pc = "for"
    /\ call.i = Len(DGrids)
    /\ call' = [call EXCEPT !.pc = "done"]
    /\ UNCHANGED <<QC_Warning, fields, DGrids, udf, dgi, counter, pc, cur, out, results,
                   icost, msgs, err>>

NextNames == ExtractValuesToPoints \/ EndOfGrids

SpecNames == InitNames /\ [][NextNames]_vars

\* C26: the result datasets of the grids of one run never collide: distinct
\* grid paths, be it the same file name in two folders or the same base name
\* with two extensions, get distinct dataset names, so that the dataset of
\* every grid processed so far is in the results geodatabase.
C26_NoCollision ==
    call.fn = "extract" =>
        /\ \A i, j \in 1..call.i :
              i # j => ResultName(call.UDFRoot, DGrids[i]) # ResultName(call.UDFRoot, DGrids[j])
        /\ \A i \in 1..call.i : \E d \in call.datasets : d.grid = DGrids[i]

\* the outcome of the record in cur had the grid held the value r at its place
At(r) == ProcessRow(cur.rec, r, GridRootOf(DGrids[dgi]), counter, icost, fields, QC_Warning)

SameBasis(a, b) ==
    /\ a.SOID = b.SOID
    /\ a.ContentCostUSD = b.ContentCostUSD
    /\ a.InventoryCostUSD = b.InventoryCostUSD

\* C27: SOID and the content and inventory cost bases are written for every
\* record, exposed or not, with the values the record gets when it is
\* exposed and when it is not; SOID is always the key of the record's own
\* class, foundation type and story count.
C27_BasisWhetherExposedOrNot ==
    [][ (pc = "body" /\ pc' = "updated") =>
          /\ out'.SOID = SpecificOccupIdOf(strip(cur.rec.OccupancyClass),
                                           Cat(strip(cur.rec.FoundationType)),
                                           cur.rec.NumStories)
          /\ At(None).err = "" /\ At(None).row.flExp = 0
          /\ SameBasis(out', At(None).row)
          /\ LET e == At(Some(cur.rec.FirstFloorHt + Ft(1)))
             IN  e.err = "" => (e.row.flExp = 1 /\ SameBasis(out', e.row)) ]_vars

\* a commercial record outside the flood is written with its key and with
\* both cost bases
C27_Witness ==
    /\ Written /\ out.flExp = 0
    /\ out.SOID = "C1LN"
    /\ out.ContentCostUSD > 0 /\ out.InventoryCostUSD > 0
    /\ At(Some(cur.rec.FirstFloorHt + Ft(1))).err = ""

\* C28: the three debris tonnages of an exposed record are its area times the
\* finish, structural and foundation rates, per 1000 sq ft, of a row of the
\* debris table that carries the record's debris key, and the total written
\* is the sum of the three.
C28_DebrisTonnage ==
    (Written /\ out.flExp = 1) =>
        /\ out.DebrisID = DebrisKey(CurLocals.OC, CurLocals.foundationType, CurLocals.depth)
        /\ \E i \in DOMAIN debris_lut :
              /\ debris_lut[i].DebrisID = out.DebrisID
              /\ out.Debris_Fin = Some(cur.rec.Area * debris_lut[i].Finishes)
              /\ out.Debris_Struc = Some(cur.rec.Area * debris_lut[i].Structure)
              /\ out.Debris_Found = Some(cur.rec.Area * debris_lut[i].Foundation)
        /\ out.Debris_Tot =
              Some(Val(out.Debris_Fin) + Val(out.Debris_Struc) + Val(out.Debris_Found))

\* a house without basement, 5 ft of water in it, is written with three
\* tonnages above zero
C28_Witness ==
    /\ Written /\ out.flExp = 1
    /\ out.DebrisID = "RES1NBFT4" /\ Unclamped = Ft(5)
    /\ Val(out.Debris_Fin) > 0 /\ Val(out.Debris_Struc) > 0 /\ Val(out.Debris_Found) > 0
    /\ Val(out.Debris_Tot) > Val(out.Debris_Fin) + Val(out.Debris_Struc)

(***************************************************************************)
(* SpecPre: the CSV pre-processor, process of pre_process.py, on one row   *)
(* of the input.  A column the row does not hold is None, as row.get       *)
(* gives it; the texts of the tables are sequences of characters.          *)
(***************************************************************************)
Xref(occ, stories, soid) == [Occupancy |-> occ, NumStoriesInt |-> stories, SOccupId |-> soid]

DmgFn(soid, id, r, cv) == [SOccupId |-> soid, FnId |-> id, HazardR |-> r, HazardCV |-> cv]

\* lines 19-25: the tables read from the lookuptables folder
DDFTables ==
    [SOoccupId_Occ_Xref |->
        << Xref(<<"R", "E", "S", "1", " ">>, "1", <<"R", "1", "1", "N", " ">>),
           Xref(<<"R", "E", "S", "1">>, "2", <<"R", "1", "2", "N">>),
           Xref(<<"C", "O", "M", "1">>, "1", <<"C", "1", "L", "N">>),
           Xref(<<"C", "O", "M", "1">>, "1", <<"C", "1", "M", "N">>) >>,
     flBldgStructDmgFinal |->
        << DmgFn(<<"R", "1", "1", "N", " ">>, "104", <<"0">>, <<"1">>),
           DmgFn(<<"R", "1", "1", "N">>, "105", <<"1">>, <<"0">>),
           DmgFn(<<"R", "1", "1", "N">>, "106", <<"1">>, <<"1">>),
           DmgFn(<<"R", "1", "2", "N">>, "107", <<"1">>, <<"1">>),
           DmgFn(<<"C", "1", "L", "N">>, "217", <<"1">>, <<"0">>) >>,
     flBldgContDmgFinal |->
        << DmgFn(<<"R", "1", "1", "N">>, "21", <<"1">>, <<"1">>),
           DmgFn(<<"C", "1", "L", "N", " ">>, "31", <<"1">>, <<"1">>),
           DmgFn(<<"C", "1", "L", "N">>, "39", <<"1">>, <<"1">>) >>,
     flBldgInvDmgFinal |->
        << DmgFn(<<"C", "1", "L", "N">>, "5", <<"0">>, <<"0">>),
           DmgFn(<<"C", "1", "L", "N">>, "6", <<"1">>, <<"1">>) >>]

\* lines 42-47: value is 0 before the scan, here None, and the stripped
\* SOccupId of the first cross-reference row of the occupancy and stories
\* after it
XrefValue(row) ==
    LET t == DDFTables.SOoccupId_Occ_Xref
        hit(i) == Cat(strip(t[i].Occupancy)) = row.Occ /\ t[i].NumStoriesInt = row.NumStories
    IN  IF \E i \in DOMAIN t : hit(i)
        THEN Some(Cat(strip(t[CHOOSE i \in DOMAIN t :
                                  hit(i) /\ \A j \in 1..(i - 1) : ~hit(j)].SOccupId)))
        ELSE None

\* lines 49-53, 55-59, 61-65: the id of the first row of the table whose
\* stripped SOccupId equals value and whose hazard flag is 1, if there is one
AssignedId(table, value, HazardType) ==
    LET hit(i) == /\ Some(Cat(strip(table[i].SOccupId))) = value
                  /\ IntVal(table[i][HazardType]) = 1
    IN  IF \E i \in DOMAIN table : hit(i)
        THEN Some(table[CHOOSE i \in DOMAIN table :
                            hit(i) /\ \A j \in 1..(i - 1) : ~hit(j)].FnId)
        ELSE None

\* lines 40-65: the row as it is written.  value is set by the scan of the
\* cross-reference table only, which is made when the row holds no SOID.
ProcessedRow(row, HazardType) ==
    LET value == IF IsNone(row.SOID) THEN XrefValue(row) ELSE None
        fill(col, table) == IF IsNone(row[col])
                            THEN AssignedId(DDFTables[table], value, HazardType)
                            ELSE row[col]
    IN  [row EXCEPT !.SOID = IF IsNone(row.SOID) THEN value ELSE row.SOID,
                    !.BDDF_ID = fill("BDDF_ID", "flBldgStructDmgFinal"),
                    !.CDDF_ID = fill("CDDF_ID", "flBldgContDmgFinal"),
                    !.IDDF_ID = fill("IDDF_ID", "flBldgInvDmgFinal")]

\* the rows of an input file and the hazard columns a run can select
InputRows ==
    [Occ : {"RES1", "COM1", "AGR1"}, NumStories : {"1", "2"},
     SOID : {None, Some("R11N"), Some("C1LN")},
     BDDF_ID : {None, Some("900")}, CDDF_ID : {None, Some("800")},
     IDDF_ID : {None, Some("700")}]

HazardTypes == {"HazardR", "HazardCV"}

InitPre ==
    /\ QC_Warning = FALSE
    /\ fields = {}
    /\ DGrids = <<>>
    /\ udf = <<>>
    /\ call \in {[fn |-> "process", pc |-> "for", HazardType |-> h, row |-> r, written |-> r] :
                     h \in HazardTypes, r \in InputRows}
    /\ Start

\* lines 39-75: one pass of the loop over the rows of the input
process ==
    /\ call.fn = "process" /\ call.pc = "for"
    /\ call' = [call EXCEPT !.pc = "written",
                            !.written = ProcessedRow(call.row, call.HazardType)]
    /\ UNCHANGED <<QC_Warning, fields, DGrids, udf, dgi, counter, pc, cur, out, results,
                   icost, msgs, err>>

NextPre == process

SpecPre == InitPre /\ [][NextPre]_vars

\* the specific occupancy ID of the row: the one it holds, else the one the
\* cross-reference table gives for its occupancy and stories
StatedSOID(row) == IF IsNone(row.SOID) THEN XrefValue(row) ELSE row.SOID

\* the id of the first row of the table with that specific occupancy ID and
\* the hazard flag 1
StatedId(table, row, HazardType) ==
    LET t == DDFTables[table]
        rows == {i \in DOMAIN t : /\ Some(Cat(strip(t[i].SOccupId))) = StatedSOID(row)
                                  /\ t[i][HazardType] = <<"1">>}
    IN  IF rows = {} THEN None
        ELSE Some(t[CHOOSE i \in rows : \A j \in rows : i <= j].FnId)

\* C29: a row written by the pre-processor that came without a building,
\* content or inventory function id has the id of the first row of the
\* respective table whose SOccupId is the row's specific occupancy ID, the
\* one in the row or else the one of the cross-reference table, and whose
\* selected hazard flag is 1; the values the row came with are as they were.
C29_AssignedFromFirstRow ==
    (call.fn = "process" /\ call.pc = "written") =>
        LET r == call.row
            w == call.written
            h == call.HazardType
        IN  /\ w.BDDF_ID = IF IsNone(r.BDDF_ID)
                            THEN StatedId("flBldgStructDmgFinal", r, h) ELSE r.BDDF_ID
            /\ w.CDDF_ID = IF IsNone(r.CDDF_ID)
                            THEN StatedId("flBldgContDmgFinal", r, h) ELSE r.CDDF_ID
            /\ w.IDDF_ID = IF IsNone(r.IDDF_ID)
                            THEN StatedId("flBldgInvDmgFinal", r, h) ELSE r.IDDF_ID
            /\ w.SOID = StatedSOID(r)
            /\ w.Occ = r.Occ /\ w.NumStories = r.NumStories

(***************************************************************************)
(* SpecGui: the field-mapping window of gui_program.py.  The callbacks of  *)
(* the Tk main loop run one at a time, in any order: the Browse button,    *)
(* the Execute button, the typing into an entry box, and checkform, which  *)
(* re-arms itself every 100 ms.  Three of the text fields are kept, two of *)
(* them required; the two list boxes take no part in the validation.       *)
(***************************************************************************)
FormKeys == {"OCC", "Cost", "SOID"}

\* lines 15-31: the fields whose label carries a '*'
RequiredKeys == {"OCC", "Cost"}

\* lines 34-48
defaultFields ==
    [OCC |-> <<"Occupancy", "Occ">>, Cost |-> <<"Cost", "COST">>,
     SOID |-> <<"SpecificOcc_ID", "SOID">>]

\* the files the user can browse to, by name, with their header
CsvHeaders ==
    [a |-> <<"Occ", "Cost">>, b |-> <<"Occupancy", "COST", "SOID">>, c |-> <<"id", "Occ">>]

CsvNames == DOMAIN CsvHeaders

\* the texts a user types into an entry box
EntryTexts == {"", "Occ", "COST"}

Columns_(csvFields) == {csvFields[i] : i \in DOMAIN csvFields}

\* lines 110-123: the column a text field is mapped to, "" for none
MappedColumn(key, value, csvFields) ==
    LET d == defaultFields[key]
        hits == {i \in DOMAIN d : d[i] \in Columns_(csvFields)}
    IN  IF Len(csvFields) = 0 THEN ""
        ELSE IF value # ""
        THEN (IF value \in Columns_(csvFields) THEN value ELSE "")
        ELSE IF hits = {} THEN ""
        ELSE d[CHOOSE i \in hits : \A j \in hits : i <= j]

\* lines 109-122: whether a required field is mapped
ValidField(key, value, csvFields) ==
    /\ Len(csvFields) # 0
    /\ IF value # "" THEN value \in Columns_(csvFields)
       ELSE \E i \in DOMAIN defaultFields[key] : defaultFields[key][i] \in Columns_(csvFields)

\* lines 144-169: the window as the main loop finds it.  root.filename is
\* not set, the Execute button is bound to runHazus.
InitGui ==
    /\ QC_Warning = FALSE
    /\ fields = {}
    /\ DGrids = <<>>
    /\ udf = <<>>
    /\ call = [fn |-> "gui", pc |-> "mainloop",
                filename |-> None, csvFields |-> <<>>,
                ents |-> [k \in FormKeys |-> ""],
                fields |-> [k \in FormKeys |-> ""],
                valid |-> [k \in {} |-> FALSE],
                command |-> "runHazus",
                started |-> None]
    /\ Start

GuiStep(c) ==
    /\ call.fn = "gui" /\ call.pc = "mainloop"
    /\ call' = c
    /\ UNCHANGED <<QC_Warning, fields, DGrids, udf, dgi, counter, pc, cur, out, results,
                   icost, msgs, err>>

\* lines 67-73: a file is chosen and its header read, or the dialog is
\* cancelled: filename is then '' and open fails before csvFields is set
browse_button ==
    \/ \E f \in CsvNames :
          GuiStep([call EXCEPT !.filename = Some(f), !.csvFields = CsvHeaders[f]])
    \/ GuiStep([call EXCEPT !.filename = Some("")])

\* the user types into the entry box of a field
TypeEntry ==
    \E k \in FormKeys, t \in EntryTexts :
        /\ call.ents[k] # t
        /\ GuiStep([call EXCEPT !.ents[k] = t])

\* lines 102-132
checkform ==
    LET valid == [k \in RequiredKeys |-> ValidField(k, call.ents[k], call.csvFields)]
    IN  GuiStep([call EXCEPT
                   !.fields = [k \in FormKeys |->
                                  MappedColumn(k, call.ents[k], call.csvFields)],
                   !.valid = valid,
                   !.command = IF \E k \in RequiredKeys : ~valid[k] THEN "" ELSE "runHazus"])

\* lines 50-66: the Execute button is clicked while bound to runHazus, which
\* is started on root.filename with the mapping of root.fields and ends in
\* a message window.  The main window is not followed while that is open.
runHazus ==
    /\ call.command = "runHazus"
    /\ GuiStep([call EXCEPT !.pc = "popup",
                            !.started = Some([filename |-> call.filename,
                                              entries |-> call.fields,
                                              ents |-> call.ents])])

\* lines 134-141: the message window is closed
popupmsg ==
    /\ call.fn = "gui" /\ call.pc = "popup"
    /\ call' = [call EXCEPT !.pc = "mainloop", !.started = None]
    /\ UNCHANGED <<QC_Warning, fields, DGrids, udf, dgi, counter, pc, cur, out, results,
                   icost, msgs, err>>

NextGui == browse_button \/ TypeEntry \/ checkform \/ runHazus \/ popupmsg

SpecGui == InitGui /\ [][NextGui]_vars

\* C30: whenever runHazus is started, an input CSV is selected, every
\* required text field is mapped to a column of the header of that CSV, and
\* the mapping handed over is the one valid for that CSV.
C30_StartedOnlyWhenValid ==
    (call.fn = "gui" /\ ~IsNone(call.started)) =>
        LET s == Val(call.started)
        IN  /\ ~IsNone(s.filename) /\ Val(s.filename) \in CsvNames
            /\ LET header == CsvHeaders[Val(s.filename)]
               IN  /\ \A k \in RequiredKeys : s.entries[k] \in Columns_(header)
                   /\ s.entries = [k \in FormKeys |-> MappedColumn(k, s.ents[k], header)]
====
